---- MODULE Spec2Model ----
(***************************************************************************)
(* Model of the recipe routes of pradeeps-food-guide                       *)
(* (src/unnamed/part_000, from line 610): the ingredient normalizer, the   *)
(* match scorer, the local recipe table, the fallback chain of             *)
(* GET /search, the three generative adapters, GET /:id, and a server      *)
(* that handles several requests at once.                                  *)
(*                                                                         *)
(* JavaScript strings are TLA+ strings; a character is a string of         *)
(* length 1.  Arrays are sequences.                                        *)
(*                                                                         *)
(* A const of the source whose value is used more than once is a variable  *)
(* bound in a one-element set, "\E x \in {e} : ..." in an action and        *)
(* "CHOOSE r \in { f(x) : x \in {e} } : TRUE" in an operator: e is then     *)
(* computed once, as in the source, also where ENABLED is evaluated.       *)
(***************************************************************************)
EXTENDS Integers, Sequences, FiniteSets, TLC

VARIABLES
    cfg,                    \* the four availability flags, fixed at start-up
    query,                  \* req.query of the request being handled
    pc,                     \* position of the handler
    ingredientsArray,       \* const ingredientsArray
    normalizedIngredients,  \* const normalizedIngredients
    recipes,                \* let recipes
    source,                 \* let source
    fallbackLevel,          \* let fallbackLevel
    modelIdx,               \* index into modelsToTry of the adapter running, else 0
    inflight,               \* provider calls awaited and not yet settled
    calls,                  \* the tiers invoked (provider or table lookup), in order
    results,                \* what each tier that was called came back with
    response,               \* what res.status(..).json(..) sent
    fnIn,                   \* arguments of a pure function under test
    fnOut,                  \* its results
    table,                  \* the object the module constant LOCAL_RECIPES refers to
    reqs,                   \* the requests of a server that handles several at once
    storage,                \* the browser: localStorage.getItem('favorites'), parsed
    modal                   \* the browser: the state of the RecipeModal component

handlerVars == <<cfg, query, pc, ingredientsArray, normalizedIngredients, recipes,
                 source, fallbackLevel, modelIdx, inflight, calls, results, response, reqs>>
fnVars == <<fnIn, fnOut>>
browserVars == <<storage, modal>>
vars == <<cfg, query, pc, ingredientsArray, normalizedIngredients, recipes,
          source, fallbackLevel, modelIdx, inflight, calls, results, response, fnIn, fnOut,
          table, reqs, storage, modal>>

(***************************************************************************)
(* Strings                                                                 *)
(***************************************************************************)
Ch(s, i) == SubSeq(s, i, i)

\* s without its first n characters
Drop(s, n) == CHOOSE rest \in { SubSeq(str, n + 1, Len(str)) : str \in {s} } : TRUE

UpperLetters == "ABCDEFGHIJKLMNOPQRSTUVWXYZ"
LowerLetters == "abcdefghijklmnopqrstuvwxyz"
Digits == "0123456789"

CharsOf(s) == { Ch(s, i) : i \in 1..Len(s) }

\* \w of a JavaScript regular expression
WordChars == CharsOf(LowerLetters) \cup CharsOf(UpperLetters) \cup CharsOf(Digits) \cup {"_"}
IsWordChar(c) == c \in WordChars

\* \s of a JavaScript regular expression (the white space the inputs use)
IsSpaceChar(c) == c \in {" ", "\t", "\n"}

LowerOf == [c \in CharsOf(UpperLetters) |->
              Ch(LowerLetters, CHOOSE i \in 1..Len(UpperLetters) : Ch(UpperLetters, i) = c)]

LowerChar(c) == IF c \in DOMAIN LowerOf THEN LowerOf[c] ELSE c

\* String.prototype.toLowerCase
RECURSIVE toLowerCase(_)
toLowerCase(s) ==
    IF Len(s) = 0 THEN "" ELSE LowerChar(Ch(s, 1)) \o toLowerCase(Drop(s, 1))

RECURSIVE TrimStart(_)
TrimStart(s) ==
    IF Len(s) > 0 /\ IsSpaceChar(Ch(s, 1)) THEN TrimStart(Drop(s, 1)) ELSE s

RECURSIVE TrimEnd(_)
TrimEnd(s) ==
    IF Len(s) > 0 /\ IsSpaceChar(Ch(s, Len(s))) THEN TrimEnd(SubSeq(s, 1, Len(s) - 1)) ELSE s

\* String.prototype.trim
trim(s) == TrimEnd(TrimStart(s))

\* .map(i => i.trim())
TrimAll(arr) == [i \in 1..Len(arr) |-> trim(arr[i])]

\* .map(i => i.name.toLowerCase())
LowerAll(arr) == [i \in 1..Len(arr) |-> toLowerCase(arr[i])]

\* String.prototype.includes
includes(s, t) == \E i \in 1..(Len(s) - Len(t) + 1) : SubSeq(s, i, i + Len(t) - 1) = t

\* Array.prototype.join
RECURSIVE join(_, _)
join(arr, sep) ==
    IF Len(arr) = 0 THEN ""
    ELSE IF Len(arr) = 1 THEN arr[1]
    ELSE arr[1] \o sep \o join(Tail(arr), sep)

\* String.prototype.split with a one-character separator: SplitFrom(s, sep, cur)
\* is the split of cur \o s where cur holds no separator.
RECURSIVE SplitFrom(_, _, _)
SplitFrom(s, sep, cur) ==
    IF Len(s) = 0 THEN <<cur>>
    ELSE IF Ch(s, 1) = sep THEN <<cur>> \o SplitFrom(Drop(s, 1), sep, "")
    ELSE SplitFrom(Drop(s, 1), sep, cur \o Ch(s, 1))

split(s, sep) == SplitFrom(s, sep, "")


\* Array.prototype.filter(i => i) on an array of strings: '' is falsy
RECURSIVE FilterNonEmpty(_)
FilterNonEmpty(arr) ==
    IF Len(arr) = 0 THEN <<>>
    ELSE (IF arr[1] = "" THEN <<>> ELSE <<arr[1]>>) \o FilterNonEmpty(Tail(arr))

(***************************************************************************)
(* normalizeIngredient                                                     *)
(***************************************************************************)
\* .replace(/[^\w\s]/gi, '')
RECURSIVE StripPunctuation(_)
StripPunctuation(s) ==
    IF Len(s) = 0 THEN ""
    ELSE (IF IsWordChar(Ch(s, 1)) \/ IsSpaceChar(Ch(s, 1)) THEN Ch(s, 1) ELSE "")
         \o StripPunctuation(Drop(s, 1))

\* .replace(/\s+/g, ' ')
RECURSIVE CollapseSpaces(_)
CollapseSpaces(s) ==
    IF Len(s) = 0 THEN ""
    ELSE IF IsSpaceChar(Ch(s, 1))
         THEN " " \o CollapseSpaces(TrimStart(s))
         ELSE Ch(s, 1) \o CollapseSpaces(Drop(s, 1))

StopWords == <<"chopped", "diced", "sliced", "minced", "grated",
               "fresh", "dried", "ground", "powdered">>

\* \b at the gap before character i of s (1 <= i <= Len(s) + 1)
WordBoundary(s, i) ==
    LET before == i > 1 /\ IsWordChar(Ch(s, i - 1))
        after  == i <= Len(s) /\ IsWordChar(Ch(s, i))
    IN  before # after

\* the stop words the regular expression matches at position i, case-insensitively
StopWordsAt(s, i) ==
    { k \in 1..Len(StopWords) :
        /\ i + Len(StopWords[k]) - 1 <= Len(s)
        /\ WordBoundary(s, i)
        /\ WordBoundary(s, i + Len(StopWords[k]))
        /\ toLowerCase(SubSeq(s, i, i + Len(StopWords[k]) - 1)) = StopWords[k] }

\* .replace(/\b(?:chopped|...|powdered)\b/gi, ''), scanning from position i
RECURSIVE StripStopWordsFrom(_, _)
StripStopWordsFrom(s, i) ==
    IF i > Len(s) THEN ""
    ELSE IF StopWordsAt(s, i) # {}
         THEN LET k == CHOOSE m \in StopWordsAt(s, i) : \A n \in StopWordsAt(s, i) : m <= n
              IN  StripStopWordsFrom(s, i + Len(StopWords[k]))
         ELSE Ch(s, i) \o StripStopWordsFrom(s, i + 1)

StripStopWords(s) == StripStopWordsFrom(s, 1)

\* the replacements and trims of normalizeIngredient, one after the other
NormalizeSteps(ingredient) ==
    CHOOSE normalized \in
        { trim(stripped) : stripped \in
        { StripStopWords(collapsed) : collapsed \in
        { CollapseSpaces(unpunctuated) : unpunctuated \in
        { StripPunctuation(trimmed) : trimmed \in
        { trim(lower) : lower \in
        { toLowerCase(ingredient) } } } } } } : TRUE

(***************************************************************************)
(* The local recipe table                                                  *)
(***************************************************************************)
LocalRecipe(id, prepTime, servings, ingredients) ==
    [id |-> id, prepTime |-> prepTime, servings |-> servings, ingredients |-> ingredients]

\* Object.entries(LOCAL_RECIPES), in insertion order
LOCAL_RECIPES == <<
    [key |-> "pasta,egg",
     recipes |-> <<LocalRecipe(1001, 15, 1, <<"pasta", "egg", "oil", "salt">>)>>],
    [key |-> "pasta,onion,egg",
     recipes |-> <<LocalRecipe(1002, 20, 2, <<"pasta", "onion", "egg", "oil", "salt", "pepper">>)>>],
    [key |-> "pasta,tomato",
     recipes |-> <<LocalRecipe(1003, 25, 2, <<"pasta", "tomato", "garlic", "olive oil", "basil">>)>>],
    [key |-> "rice,egg",
     recipes |-> <<LocalRecipe(1004, 15, 2, <<"rice", "egg", "oil", "soy sauce">>)>>],
    [key |-> "chicken,rice",
     recipes |-> <<LocalRecipe(1005, 30, 2, <<"chicken", "rice", "salt", "pepper">>)>>],
    [key |-> "water,lemon,salt,strawberry",
     recipes |-> <<LocalRecipe(1006, 5, 4, <<"water", "lemon", "strawberry", "salt">>)>>],
    [key |-> "chicken,garlic",
     recipes |-> <<LocalRecipe(1007, 25, 2, <<"chicken", "garlic", "oil", "salt", "pepper">>)>>],
    [key |-> "strawberry,soda",
     recipes |-> <<LocalRecipe(1008, 5, 1, <<"strawberry", "soda">>)>>],
    [key |-> "water,lemon",
     recipes |-> <<LocalRecipe(1009, 2, 1, <<"water", "lemon">>)>>],
    [key |-> "bread,egg",
     recipes |-> <<LocalRecipe(1010, 10, 1, <<"bread", "egg", "butter", "salt">>)>>],
    [key |-> "bread,cheese",
     recipes |-> <<LocalRecipe(1011, 10, 1, <<"bread", "cheese", "butter">>)>>],
    [key |-> "potato,onion",
     recipes |-> <<LocalRecipe(1012, 25, 2, <<"potato", "onion", "oil", "salt">>)>>],
    [key |-> "tomato,onion",
     recipes |-> <<LocalRecipe(1013, 10, 2, <<"tomato", "onion", "salt", "lemon">>)>>],
    [key |-> "egg,tomato",
     recipes |-> <<LocalRecipe(1014, 15, 1, <<"egg", "tomato", "oil", "salt">>)>>],
    [key |-> "milk,chocolate",
     recipes |-> <<LocalRecipe(1015, 10, 1, <<"milk", "chocolate", "sugar">>)>> ] >>

\* the ingredient names written in the table: those of its keys and those of
\* its recipes
TableNames ==
    UNION { { n : n \in { split(LOCAL_RECIPES[i].key, ",")[k] :
                            k \in 1..Len(split(LOCAL_RECIPES[i].key, ",")) } }
              \cup UNION { { LOCAL_RECIPES[i].recipes[r].ingredients[k] :
                               k \in 1..Len(LOCAL_RECIPES[i].recipes[r].ingredients) } :
                           r \in 1..Len(LOCAL_RECIPES[i].recipes) } :
            i \in 1..Len(LOCAL_RECIPES) }

\* what normalizeIngredient returns for each of them, computed once
NormalizedTableNames == [name \in TableNames |-> NormalizeSteps(name)]

normalizeIngredient(ingredient) ==
    IF ingredient \in TableNames THEN NormalizedTableNames[ingredient]
    ELSE NormalizeSteps(ingredient)

\* .map(normalizeIngredient)
NormalizeAll(arr) == [i \in 1..Len(arr) |-> normalizeIngredient(arr[i])]

(***************************************************************************)
(* calculateMatchPercentage                                                *)
(***************************************************************************)
SeqToSet(arr) == { arr[i] : i \in 1..Len(arr) }

\* Math.round of the non-negative quotient num / den
RoundQuotient(num, den) == (2 * num + den) \div (2 * den)

\* the partial-match loop without its break: 0.6 for every user ingredient
\* that contains the recipe ingredient or is contained in it
IngredientScoreCounted(normalizedRecipeIng, userIngSet) ==
    IF normalizedRecipeIng \in userIngSet THEN 10
    ELSE 6 * Cardinality({ userIng \in userIngSet :
                              includes(normalizedRecipeIng, userIng)
                                  \/ includes(userIng, normalizedRecipeIng) })

\* a partial match counted for less the more ingredients the user has
IngredientScoreShared(normalizedRecipeIng, userIngSet) ==
    IF normalizedRecipeIng \in userIngSet THEN 10
    ELSE IF \E userIng \in userIngSet :
               includes(normalizedRecipeIng, userIng) \/ includes(userIng, normalizedRecipeIng)
         THEN 6 \div Cardinality(userIngSet)
         ELSE 0

\* What one recipe ingredient adds to matchScore, in tenths: 1.0 for an exact
\* match, else 0.6 for the first user ingredient containing it or contained
\* in it (the loop breaks there), else nothing.
IngredientScore(normalizedRecipeIng, userIngSet) ==
    IF normalizedRecipeIng \in userIngSet THEN 10
    ELSE IF \E userIng \in userIngSet :
               includes(normalizedRecipeIng, userIng) \/ includes(userIng, normalizedRecipeIng)
         THEN 6
         ELSE 0

RECURSIVE MatchScore(_, _)
MatchScore(recipeIngredients, userIngSet) ==
    IF Len(recipeIngredients) = 0 THEN 0
    ELSE CHOOSE matchScore \in
             { IngredientScore(normalizedRecipeIng, userIngSet)
                   + MatchScore(Tail(recipeIngredients), userIngSet) :
               normalizedRecipeIng \in {normalizeIngredient(recipeIngredients[1])} } : TRUE

\* Math.min(rounded, 98): the lower limit left out
ClampWithoutFloor(rounded) == IF rounded > 98 THEN 98 ELSE rounded

\* Math.min(Math.max(rounded, 15), 98)
Clamp(rounded) == IF rounded < 15 THEN 15 ELSE IF rounded > 98 THEN 98 ELSE rounded

\* matchScore is kept in tenths and the percentage as an exact quotient.  With
\* at most five recipe ingredients the exact percentage is a whole number
\* (a multiple of 0.2 times 20, 25, 40, 60 or 120), so the double arithmetic
\* of the source rounds to the same integer.
calculateMatchPercentage(userIngredients, recipeIngredients) ==
    IF Len(recipeIngredients) = 0 THEN 10
    ELSE IF Len(userIngredients) = 0 THEN 0
    ELSE LET boost == IF Len(recipeIngredients) <= 3 THEN 12 ELSE 10
         IN  CHOOSE percentage \in
                 { Clamp(RoundQuotient(MatchScore(recipeIngredients, userIngSet) * 10 * boost,
                                       Len(recipeIngredients) * 10)) :
                   userIngSet \in {SeqToSet(NormalizeAll(userIngredients))} } : TRUE

\* LOCAL_RECIPES is an object literal: a lookup by key also finds what it
\* inherits from Object.prototype.  normalizeIngredient yields lower case
\* letters, digits, "_" and " " only, which leaves these two inherited names.
InheritedKeys == {"constructor", "__proto__"}

OwnEntries(key) == { i \in 1..Len(table) : table[i].key = key }

\* if (LOCAL_RECIPES[ingredientsKey]) matchedRecipes.push(...LOCAL_RECIPES[ingredientsKey]):
\* spreading an inherited value, which is not iterable, throws a TypeError
ExactLookupThrows(ingredientsKey) ==
    OwnEntries(ingredientsKey) = {} /\ ingredientsKey \in InheritedKeys

ExactMatches(ingredientsKey) ==
    IF OwnEntries(ingredientsKey) = {} THEN <<>>
    ELSE table[CHOOSE i \in OwnEntries(ingredientsKey) : TRUE].recipes

\* the number of user ingredients that contain, or are contained in, some
\* ingredient of the key
RECURSIVE MatchCount(_, _)
MatchCount(userIngs, keyIngredients) ==
    IF Len(userIngs) = 0 THEN 0
    ELSE (IF \E k \in 1..Len(keyIngredients) :
                 \E keyIng \in {normalizeIngredient(keyIngredients[k])} :
                 \E userIng \in {userIngs[1]} :
                     includes(keyIng, userIng) \/ includes(userIng, keyIng)
          THEN 1 ELSE 0)
         + MatchCount(Tail(userIngs), keyIngredients)

\* matchRatio > 0.5
RatioAboveHalf(matchCount, length) == length > 0 /\ 2 * matchCount > length

\* matchRatio >= 0.5, where matchRatio = matchCount / length is NaN for 0 / 0
RatioAtLeastHalf(matchCount, length) == length > 0 /\ 2 * matchCount >= length

WithMatchScore(recipe, score) ==
    [id |-> recipe.id, prepTime |-> recipe.prepTime, servings |-> recipe.servings,
     ingredients |-> recipe.ingredients, matchScore |-> score]

\* the partial matches of the entries from position i on
RECURSIVE PartialMatchesFrom(_, _, _)
PartialMatchesFrom(i, normalized, ingredientsKey) ==
    IF i > Len(table) THEN <<>>
    ELSE LET entry == table[i]
             found ==
                 CHOOSE pushed \in
                     UNION { { IF entry.key # ingredientsKey
                                      /\ RatioAtLeastHalf(matchCount, Len(normalized))
                               THEN [r \in 1..Len(entry.recipes) |->
                                        WithMatchScore(entry.recipes[r],
                                                       RoundQuotient(matchCount * 100,
                                                                     Len(normalized)))]
                               ELSE <<>> :
                               matchCount \in {MatchCount(normalized, keyIngredients)} } :
                             keyIngredients \in {split(entry.key, ",")} } : TRUE
         IN  found \o PartialMatchesFrom(i + 1, normalized, ingredientsKey)

\* defined when ExactLookupThrows(key of the ingredients) is false
findLocalRecipes(ingredients) ==
    CHOOSE matchedRecipes \in
        UNION { { ExactMatches(ingredientsKey)
                      \o PartialMatchesFrom(1, normalized, ingredientsKey) :
                  ingredientsKey \in {join(normalized, ",")} } :
                normalized \in {NormalizeAll(ingredients)} } : TRUE

findLocalRecipesThrows(ingredients) ==
    \E normalized \in {NormalizeAll(ingredients)} :
    \E ingredientsKey \in {join(normalized, ",")} :
        ExactLookupThrows(ingredientsKey)

\* the table as it would be if matchedRecipes were the array of the exact key
\* itself, not a copy of its elements: the partial matches are pushed into
\* the table
LocalTableAliased(ingredients) ==
    LET normalized     == NormalizeAll(ingredients)
        ingredientsKey == join(normalized, ",")
    IN  [i \in 1..Len(table) |->
            IF table[i].key = ingredientsKey
            THEN [key |-> table[i].key, recipes |-> findLocalRecipes(ingredients)]
            ELSE table[i]]

\* the table as it would be if the match score were assigned to the recipe
\* of the table, not to a copy of it
LocalTableAnnotated(ingredients) ==
    LET normalized     == NormalizeAll(ingredients)
        ingredientsKey == join(normalized, ",")
        matchCount(i)  == MatchCount(normalized, split(table[i].key, ","))
    IN  [i \in 1..Len(table) |->
            IF table[i].key # ingredientsKey
                   /\ RatioAtLeastHalf(matchCount(i), Len(normalized))
            THEN [key |-> table[i].key,
                  recipes |-> [r \in 1..Len(table[i].recipes) |->
                                  WithMatchScore(table[i].recipes[r],
                                                 RoundQuotient(matchCount(i) * 100,
                                                               Len(normalized)))]]
            ELSE table[i]]

\* LOCAL_RECIPES after findLocalRecipes has returned: the function reads the
\* table only; push(...array) copies the elements of the array of the exact
\* key into matchedRecipes, and { ...recipe, matchScore } is a new object
LocalTableAfter(ingredients) == table

(***************************************************************************)
(* GET /search: values                                                     *)
(***************************************************************************)
MaxSpoonResults == 2    \* longest result array the structured provider returns

\* req.query.ingredients: absent, a string, or an array (a repeated parameter)
Absent == [kind |-> "absent", val |-> ""]
ArrayParam == [kind |-> "array", val |-> ""]
Str(s) == [kind |-> "string", val |-> s]

IngredientStrings ==
    {"", ",", "kiwi", "kiwi,mango", "tomato", "pasta,egg", "egg,pasta", "tomato,onion,extra",
     "red chopped onion, Fresh", "constructor"}

IngredientParams == {Absent, ArrayParam} \cup { Str(s) : s \in IngredientStrings }

\* req.query.number after its conversion to a number by Math.min: a string
\* that is no numeral converts to NaN; an absent parameter is the default 10
NaN == [nan |-> TRUE, val |-> 0]
Num(n) == [nan |-> FALSE, val |-> n]
DefaultNumber == 10
NumberParams == {NaN} \cup { Num(n) : n \in {-1, 0, 2, DefaultNumber} }

\* !ingredients
Falsy(p) == p.kind = "absent" \/ (p.kind = "string" /\ p.val = "")

\* one element of the structured provider's response.data; an element whose
\* ingredient entries lack the name field makes i.name.toLowerCase() throw
SpoonItem(id, used, missed, wellFormed) ==
    [id |-> id, usedIngredients |-> used, missedIngredients |-> missed,
     wellFormed |-> wellFormed]

SpoonItems ==
    { SpoonItem(11, <<"Pasta">>, <<"egg">>, TRUE),
      SpoonItem(12, <<>>, <<>>, TRUE),
      SpoonItem(13, <<"egg">>, <<>>, FALSE) }

SpoonData == UNION { [1..n -> SpoonItems] : n \in 0..MaxSpoonResults }

\* what axios.get settles with: a rejection (network error, timeout, status
\* outside 2xx) or a response whose data is an array
SpoonOutcomes == {[kind |-> "throw", data |-> <<>>]}
                     \cup { [kind |-> "data", data |-> d] : d \in SpoonData }

GeminiModels == <<"gemini-1.5-flash", "gemini-1.5-pro", "gemini-2.0-flash", "gemini-2.0-flash-exp">>
CohereModels == <<"command-a-03-2025", "command-r7b-12-2024", "command-r-plus-08-2024",
                  "command-r-08-2024">>
OpenRouterModels == <<"mistralai/mistral-7b-instruct:free">>

\* what a text-generation call settles with: a rejection, or a response whose
\* body lacks the expected fields ("malformed"), or one that holds a text that
\* is a JSON object ("json"), holds braces that do not parse ("badjson"), or
\* holds no JSON at all ("plain")
GenerativeOutcomes == {"fail", "malformed", "json", "badjson", "plain"}

Null == [source |-> "null", modelUsed |-> ""]

\* the value a generative adapter returns once a model has responded: the
\* parsed recipe, the recipe synthesized from the ingredients when the text
\* does not parse, or null when reading the body throws into the outer catch
AdapterResult(tag, outcome, model) ==
    CASE outcome = "json"      -> [source |-> tag, modelUsed |-> model]
      [] outcome = "malformed" -> Null
      [] OTHER                 -> [source |-> tag \o "_text", modelUsed |-> model]

Recipe(id, matchPercentage, src) ==
    [id |-> id, matchPercentage |-> matchPercentage, source |-> src]

\* recipes.sort((a, b) => b.matchPercentage - a.matchPercentage): stable
RECURSIVE InsertByMatch(_, _)
InsertByMatch(sorted, r) ==
    IF Len(sorted) = 0 THEN <<r>>
    ELSE IF sorted[1].matchPercentage >= r.matchPercentage
         THEN <<sorted[1]>> \o InsertByMatch(Tail(sorted), r)
         ELSE <<r>> \o sorted

RECURSIVE SortFrom(_, _)
SortFrom(arr, sorted) ==
    IF Len(arr) = 0 THEN sorted
    ELSE CHOOSE result \in { SortFrom(Tail(arr), inserted) :
                               inserted \in {InsertByMatch(sorted, arr[1])} } : TRUE

\* the list left in the order the tier produced it
SortOmitted(arr) == arr

SortByMatch(arr) == SortFrom(arr, <<>>)

\* Math.min(number, 15)
MaxRecipes == 15
Limit(number) ==
    IF number.nan THEN NaN ELSE IF number.val < MaxRecipes THEN number ELSE Num(MaxRecipes)

\* recipes.slice(0, end): NaN counts as 0, a negative end counts from the back
slice(arr, end) ==
    LET e == IF end.nan THEN 0
             ELSE IF end.val < 0 THEN (IF Len(arr) + end.val < 0 THEN 0 ELSE Len(arr) + end.val)
             ELSE IF end.val > Len(arr) THEN Len(arr) ELSE end.val
    IN  SubSeq(arr, 1, e)

RECURSIVE NatToString(_)
NatToString(n) ==
    IF n < 10 THEN Ch(Digits, n + 1) ELSE NatToString(n \div 10) \o Ch(Digits, (n % 10) + 1)

Plural(count) == IF count # 1 THEN "s" ELSE ""

getMessageBySource(src, count) ==
    CASE src = "spoonacular" -> "Found " \o NatToString(count) \o " recipes from Spoonacular"
      [] src = "gemini_ai" ->
            "Gemini AI (Google) generated " \o NatToString(count) \o " recipe" \o Plural(count)
      [] src = "cohere_ai" ->
            "Cohere AI generated " \o NatToString(count) \o " recipe" \o Plural(count)
      [] src = "openrouter_mistral" ->
            "Mistral AI generated " \o NatToString(count) \o " recipe" \o Plural(count)
      [] src = "local" -> "Found " \o NatToString(count) \o " local recipe" \o Plural(count)
      [] src = "generated" -> "Created " \o NatToString(count) \o " simple recipe" \o Plural(count)
      [] src = "emergency" -> "Emergency recipes provided"
      [] OTHER -> "Found " \o NatToString(count) \o " recipes"

NoResponse == [status |-> 0]
BadRequest == [status |-> 400, success |-> FALSE, error |-> "Ingredients parameter is required"]
ServerError == [status |-> 500, success |-> FALSE, error |-> "Internal server error"]

(***************************************************************************)
(* GET /search: the handler                                                *)
(***************************************************************************)
\* the values the handler assigns to fallbackLevel
LevelSpoonacular == 0
LevelSpoonacularFailed == 1
LevelGemini == 2
LevelGeminiFailed == 3
LevelCohere == 4
LevelCohereFailed == 5
LevelOpenRouter == 6
LevelCopiedFromStep1 == LevelSpoonacularFailed   \* the level of another branch
LevelOpenRouterFailed == 7
LevelLocal == 8
LevelEmergency == 9

\* a guard that forgets to look at recipes
NeedsNextTierAlways(r) == TRUE

\* recipes.length === 0, the guard of STEP 2 to STEP 5 and of the emergency step
NeedsNextTier(r) == Len(r) = 0

\* the recipe STEP 1 builds for an element of response.data
SpoonRecipe(item, normalized) ==
    Recipe(item.id,
           calculateMatchPercentage(
               normalized,
               LowerAll(item.usedIngredients)
                   \o LowerAll(item.missedIngredients)),
           "spoonacular")

\* the recipe STEP 5 builds for a local recipe:
\* recipe.matchScore || calculateMatchPercentage(normalizedIngredients, recipe.ingredients || [])
LocalRecipeResult(recipe, normalized) ==
    Recipe(recipe.id,
           IF "matchScore" \in DOMAIN recipe /\ recipe.matchScore # 0
           THEN recipe.matchScore
           ELSE calculateMatchPercentage(normalized, recipe.ingredients),
           "local")

\* the simple recipes STEP 5 creates, one per ingredient
SimpleRecipes(normalized) ==
    [i \in 1..Len(normalized) |-> Recipe(2000 + (i - 1), 90, "generated")]

\* the simple recipes added to the matches instead of replacing none
LocalTierRecipesMerged(matchedRecipes, normalized) ==
    [i \in 1..Len(matchedRecipes) |-> LocalRecipeResult(matchedRecipes[i], normalized)]
        \o SimpleRecipes(normalized)

\* the recipes of STEP 5, from what findLocalRecipes found
LocalTierRecipes(matchedRecipes, normalized) ==
    IF Len(matchedRecipes) > 0
    THEN [i \in 1..Len(matchedRecipes) |-> LocalRecipeResult(matchedRecipes[i], normalized)]
    ELSE SimpleRecipes(normalized)

EmergencyRecipe == Recipe(9999, 70, "emergency")

locals == <<ingredientsArray, normalizedIngredients, recipes, source, fallbackLevel>>

\* the request arrives: validation, split and normalization, the three lets
Validate ==
    /\ pc = "received"
    /\ UNCHANGED <<cfg, table, reqs, query, modelIdx, inflight, calls, results, fnIn, browserVars, fnOut>>
    /\ \/ /\ Falsy(query.ingredients)
          /\ response' = BadRequest
          /\ pc' = "done"
          /\ UNCHANGED locals
       \/ /\ query.ingredients.kind = "array"      \* ingredients.split is not a function
          /\ response' = ServerError
          /\ pc' = "done"
          /\ UNCHANGED locals
       \/ /\ ~Falsy(query.ingredients)
          /\ query.ingredients.kind = "string"
          /\ \E parts \in {split(query.ingredients.val, ",")} :
             \E trimmed \in {TrimAll(parts)} :
             \E arr \in {FilterNonEmpty(trimmed)} :
                 /\ ingredientsArray' = arr
                 /\ normalizedIngredients' = NormalizeAll(arr)
          /\ recipes' = <<>>
          /\ source' = "unknown"
          /\ fallbackLevel' = 0
          /\ pc' = "step1"
          /\ UNCHANGED response

\* STEP 1 when the structured provider is configured: axios.get is awaited
Step1Call ==
    /\ pc = "step1"
    /\ cfg.spoonacular
    /\ calls' = Append(calls, "spoonacular")
    /\ inflight' = inflight + 1
    /\ pc' = "await_spoonacular"
    /\ UNCHANGED <<cfg, table, reqs, query, locals, modelIdx, response, results, fnIn, browserVars, fnOut>>

\* STEP 1 when it is not
Step1Unavailable ==
    /\ pc = "step1"
    /\ ~cfg.spoonacular
    /\ fallbackLevel' = LevelSpoonacularFailed
    /\ pc' = "step2"
    /\ UNCHANGED <<cfg, table, reqs, query, ingredientsArray, normalizedIngredients, recipes, source,
                   modelIdx, inflight, calls, response, results, fnIn, browserVars, fnOut>>

\* axios.get settles: the rest of STEP 1
Step1Return ==
    /\ pc = "await_spoonacular"
    /\ inflight' = inflight - 1
    /\ pc' = "step2"
    /\ UNCHANGED <<cfg, table, reqs, query, ingredientsArray, normalizedIngredients, modelIdx, calls,
                   response, fnIn, browserVars, fnOut>>
    /\ \E out \in SpoonOutcomes :
          \/ /\ out.kind = "throw"
             /\ fallbackLevel' = LevelSpoonacularFailed
             /\ results' = Append(results, [tier |-> "spoonacular", result |-> "error"])
             /\ UNCHANGED <<recipes, source>>
          \/ /\ out.kind = "data"
             /\ Len(out.data) = 0
             /\ results' = Append(results, [tier |-> "spoonacular", result |-> "empty"])
             /\ UNCHANGED <<recipes, source, fallbackLevel>>
          \/ /\ out.kind = "data"
             /\ Len(out.data) > 0
             /\ \E i \in 1..Len(out.data) : ~out.data[i].wellFormed   \* the map throws
             /\ fallbackLevel' = LevelSpoonacularFailed
             /\ results' = Append(results, [tier |-> "spoonacular", result |-> "error"])
             /\ UNCHANGED <<recipes, source>>
          \/ /\ out.kind = "data"
             /\ Len(out.data) > 0
             /\ \A i \in 1..Len(out.data) : out.data[i].wellFormed
             /\ recipes' = SortByMatch([i \in 1..Len(out.data) |->
                                           SpoonRecipe(out.data[i], normalizedIngredients)])
             /\ source' = "spoonacular"
             /\ fallbackLevel' = LevelSpoonacular
             /\ results' = Append(results, [tier |-> "spoonacular", result |-> "recipes"])

(* STEPS 2 to 4 have one shape.  step is the position before the step, await
   the position while a call of the adapter is awaited, next the position
   after the step; avail is the availability flag, models the adapter's
   modelsToTry, tag its source tag, id the id of the recipe the step builds,
   match its matchPercentage, ok and failed the fallback levels. *)

\* recipes.length === 0 and the adapter configured: the adapter starts its
\* first call
StepCall(step, await, avail, tier, models) ==
    /\ pc = step
    /\ NeedsNextTier(recipes)
    /\ avail
    /\ modelIdx' = 1
    /\ calls' = Append(calls, tier)
    /\ inflight' = inflight + 1
    /\ pc' = await
    /\ UNCHANGED <<cfg, table, reqs, query, locals, response, results, fnIn, browserVars, fnOut>>

\* the else-if branch giving up on the providers that follow: an adapter that
\* is not configured sends the handler to STEP 5
StepSkipToLocal(step, next, avail, failed) ==
    /\ pc = step
    /\ UNCHANGED <<cfg, table, reqs, query, ingredientsArray, normalizedIngredients, recipes, source,
                   modelIdx, inflight, calls, response, results, fnIn, browserVars, fnOut>>
    /\ \/ /\ NeedsNextTier(recipes)
          /\ ~avail
          /\ fallbackLevel' = failed
          /\ pc' = "step5"
       \/ /\ ~NeedsNextTier(recipes)
          /\ pc' = next
          /\ UNCHANGED fallbackLevel

\* the else-if branch, or neither branch
StepSkip(step, next, avail, failed) ==
    /\ pc = step
    /\ pc' = next
    /\ UNCHANGED <<cfg, table, reqs, query, ingredientsArray, normalizedIngredients, recipes, source,
                   modelIdx, inflight, calls, response, results, fnIn, browserVars, fnOut>>
    /\ \/ /\ NeedsNextTier(recipes)
          /\ ~avail
          /\ fallbackLevel' = failed
       \/ /\ ~NeedsNextTier(recipes)
          /\ UNCHANGED fallbackLevel

\* a call of the adapter settles, in an adapter that starts its list again
\* when the last model has failed
StepReturnRetrying(await, next, tier, models, tag, id, match, ok, failed) ==
    /\ pc = await
    /\ UNCHANGED <<cfg, table, reqs, query, ingredientsArray, normalizedIngredients, calls, response,
                   fnIn, browserVars, fnOut>>
    /\ \E outcome \in GenerativeOutcomes :
          \/ /\ outcome = "fail"                     \* catch (modelError): the next model
             /\ modelIdx < Len(models)
             /\ modelIdx' = modelIdx + 1
             /\ UNCHANGED <<recipes, source, fallbackLevel, inflight, pc, results>>
          \/ /\ outcome = "fail"                     \* every model failed: again
             /\ modelIdx = Len(models)
             /\ Len(models) > 1
             /\ modelIdx' = 1
             /\ UNCHANGED <<recipes, source, fallbackLevel, inflight, pc, results>>
          \/ /\ outcome # "fail"
             /\ AdapterResult(tag, outcome, models[modelIdx]) = Null
             /\ fallbackLevel' = failed
             /\ inflight' = inflight - 1
             /\ pc' = next
             /\ results' = Append(results, [tier |-> tier, result |-> "null"])
             /\ modelIdx' = 0
             /\ UNCHANGED <<recipes, source>>
          \/ /\ outcome # "fail"
             /\ AdapterResult(tag, outcome, models[modelIdx]) # Null
             /\ recipes' = <<Recipe(id, match, tag)>>
             /\ source' = tag
             /\ fallbackLevel' = ok
             /\ inflight' = inflight - 1
             /\ pc' = next
             /\ results' = Append(results, [tier |-> tier, result |-> "recipe"])
             /\ modelIdx' = 0

\* a call of the adapter settles
StepReturn(await, next, tier, models, tag, id, match, ok, failed) ==
    /\ pc = await
    /\ UNCHANGED <<cfg, table, reqs, query, ingredientsArray, normalizedIngredients, calls, response,
                   fnIn, browserVars, fnOut>>
    /\ \E outcome \in GenerativeOutcomes :
          \/ /\ outcome = "fail"                     \* catch (modelError): the next model
             /\ modelIdx < Len(models)
             /\ modelIdx' = modelIdx + 1
             /\ UNCHANGED <<recipes, source, fallbackLevel, inflight, pc, results>>
          \/ /\ outcome = "fail"                     \* every model failed: return null
             /\ modelIdx = Len(models)
             /\ fallbackLevel' = failed
             /\ inflight' = inflight - 1
             /\ pc' = next
             /\ results' = Append(results, [tier |-> tier, result |-> "null"])
             /\ modelIdx' = 0
             /\ UNCHANGED <<recipes, source>>
          \/ /\ outcome # "fail"
             /\ AdapterResult(tag, outcome, models[modelIdx]) = Null
             /\ fallbackLevel' = failed
             /\ inflight' = inflight - 1
             /\ pc' = next
             /\ results' = Append(results, [tier |-> tier, result |-> "null"])
             /\ modelIdx' = 0
             /\ UNCHANGED <<recipes, source>>
          \/ /\ outcome # "fail"
             /\ AdapterResult(tag, outcome, models[modelIdx]) # Null
             /\ recipes' = <<Recipe(id, match, tag)>>
             /\ source' = tag
             /\ fallbackLevel' = ok
             /\ inflight' = inflight - 1
             /\ pc' = next
             /\ results' = Append(results, [tier |-> tier, result |-> "recipe"])
             /\ modelIdx' = 0

\* the adapter called without await: the handler goes on to STEP 3
Step2CallNotAwaited == StepCall("step2", "step3", cfg.gemini, "gemini", GeminiModels)

Step2Call == StepCall("step2", "await_gemini", cfg.gemini, "gemini", GeminiModels)
Step2Skip == StepSkip("step2", "step3", cfg.gemini, LevelGeminiFailed)
Step2Return ==
    StepReturn("await_gemini", "step3", "gemini", GeminiModels, "gemini_ai", 3000, 95,
               LevelGemini, LevelGeminiFailed)

Step3Call == StepCall("step3", "await_cohere", cfg.cohere, "cohere", CohereModels)
Step3Skip == StepSkip("step3", "step4", cfg.cohere, LevelCohereFailed)
Step3Return ==
    StepReturn("await_cohere", "step4", "cohere", CohereModels, "cohere_ai", 3001, 90,
               LevelCohere, LevelCohereFailed)

Step4Call ==
    StepCall("step4", "await_openrouter", cfg.openRouter, "openrouter", OpenRouterModels)
Step4Skip == StepSkip("step4", "step5", cfg.openRouter, LevelOpenRouterFailed)
Step4Return ==
    StepReturn("await_openrouter", "step5", "openrouter", OpenRouterModels,
               "openrouter_mistral", 3002, 85, LevelOpenRouter, LevelOpenRouterFailed)

\* STEP 5 without its assignment of the fallback level: the level of the last
\* provider that failed stays
Step5KeepsLevel ==
    /\ pc = "step5"
    /\ UNCHANGED <<cfg, reqs, query, ingredientsArray, normalizedIngredients, modelIdx, inflight,
                   results, fnIn, browserVars, fnOut>>
    /\ \/ /\ ~NeedsNextTier(recipes)
          /\ pc' = "finish"
          /\ UNCHANGED <<recipes, source, fallbackLevel, calls, response, table>>
       \/ /\ NeedsNextTier(recipes)
          /\ findLocalRecipesThrows(normalizedIngredients)   \* caught by the outer catch
          /\ source' = "local"
          /\ calls' = Append(calls, "local")
          /\ response' = ServerError
          /\ pc' = "done"
          /\ UNCHANGED <<recipes, fallbackLevel, table>>
       \/ /\ NeedsNextTier(recipes)
          /\ ~findLocalRecipesThrows(normalizedIngredients)
          /\ source' = "local"
          /\ calls' = Append(calls, "local")
          /\ \E matchedRecipes \in {findLocalRecipes(normalizedIngredients)} :
                 recipes' = LocalTierRecipes(matchedRecipes, normalizedIngredients)
          /\ table' = LocalTableAfter(normalizedIngredients)
          /\ UNCHANGED fallbackLevel
          /\ pc' = "finish"
          /\ UNCHANGED response

\* STEP 5: the local table, or one simple recipe per ingredient
Step5 ==
    /\ pc = "step5"
    /\ UNCHANGED <<cfg, reqs, query, ingredientsArray, normalizedIngredients, modelIdx, inflight,
                   results, fnIn, browserVars, fnOut>>
    /\ \/ /\ ~NeedsNextTier(recipes)
          /\ pc' = "finish"
          /\ UNCHANGED <<recipes, source, fallbackLevel, calls, response, table>>
       \/ /\ NeedsNextTier(recipes)
          /\ findLocalRecipesThrows(normalizedIngredients)   \* caught by the outer catch
          /\ source' = "local"
          /\ calls' = Append(calls, "local")
          /\ response' = ServerError
          /\ pc' = "done"
          /\ UNCHANGED <<recipes, fallbackLevel, table>>
       \/ /\ NeedsNextTier(recipes)
          /\ ~findLocalRecipesThrows(normalizedIngredients)
          /\ source' = "local"
          /\ calls' = Append(calls, "local")
          /\ \E matchedRecipes \in {findLocalRecipes(normalizedIngredients)} :
                 recipes' = LocalTierRecipes(matchedRecipes, normalizedIngredients)
          /\ table' = LocalTableAfter(normalizedIngredients)
          /\ fallbackLevel' = LevelLocal
          /\ pc' = "finish"
          /\ UNCHANGED response

\* the envelope res.json sends
Envelope(finalRecipes, src, level, arr) ==
    [status |-> 200,
     success |-> TRUE,
     count |-> Len(finalRecipes),
     ingredients |-> arr,
     source |-> src,
     usingFallback |-> level > 0,
     fallbackLevel |-> level,
     recipes |-> finalRecipes,
     message |-> getMessageBySource(src, Len(finalRecipes))]

\* "Ensure we have recipes", "Sort and limit", res.json(result)
Finish ==
    /\ pc = "finish"
    /\ UNCHANGED <<cfg, table, reqs, query, ingredientsArray, normalizedIngredients, modelIdx, inflight,
                   calls, results, fnIn, browserVars, fnOut>>
    /\ LET emergency == NeedsNextTier(recipes)
           all       == IF emergency THEN <<EmergencyRecipe>> ELSE recipes
           src       == IF emergency THEN "emergency" ELSE source
           level     == IF emergency THEN LevelEmergency ELSE fallbackLevel
       IN  \E sorted \in {SortByMatch(all)} :
           \E finalRecipes \in {slice(sorted, Limit(query.number))} :
               /\ recipes' = sorted
               /\ source' = src
               /\ fallbackLevel' = level
               /\ response' = Envelope(finalRecipes, src, level, ingredientsArray)
    /\ pc' = "done"

(***************************************************************************)
(* RecipeModal (src/unnamed/part_001): values                              *)
(***************************************************************************)
\* useState(null) of recipe
NoRecipe == [id |-> NaN, source |-> "none"]

\* the component while it is not rendered
Unmounted ==
    [mounted |-> FALSE, recipeId |-> NaN, recipe |-> NoRecipe, loading |-> FALSE,
     isFavorite |-> FALSE, pending |-> {}]

\* a browser that has not opened the modal yet: JSON.parse(... || '[]')
BrowserIdle ==
    /\ storage = <<>>
    /\ modal = Unmounted

Availability == [spoonacular : BOOLEAN, gemini : BOOLEAN, cohere : BOOLEAN,
                 openRouter : BOOLEAN]

Queries == [ingredients : IngredientParams, number : NumberParams]

\* no request is being handled
HandlerIdle ==
    /\ cfg = [spoonacular |-> FALSE, gemini |-> FALSE, cohere |-> FALSE, openRouter |-> FALSE]
    /\ query = [ingredients |-> Absent, number |-> Num(DefaultNumber)]
    /\ pc = "idle"
    /\ ingredientsArray = <<>>
    /\ normalizedIngredients = <<>>
    /\ recipes = <<>>
    /\ source = "unknown"
    /\ fallbackLevel = 0
    /\ modelIdx = 0
    /\ inflight = 0
    /\ calls = <<>>
    /\ results = <<>>
    /\ response = NoResponse
    /\ table = LOCAL_RECIPES
    /\ reqs = <<>>

\* one request of GET /search has arrived at a server started with some
\* configuration
Init ==
    /\ cfg \in Availability
    /\ query \in Queries
    /\ pc = "received"
    /\ ingredientsArray = <<>>
    /\ normalizedIngredients = <<>>
    /\ recipes = <<>>
    /\ source = "unknown"
    /\ fallbackLevel = 0
    /\ modelIdx = 0
    /\ inflight = 0
    /\ calls = <<>>
    /\ results = <<>>
    /\ response = NoResponse
    /\ fnIn = <<>>
    /\ fnOut = <<>>
    /\ BrowserIdle
    /\ table = LOCAL_RECIPES
    /\ reqs = <<>>

Next ==
    \/ Validate
    \/ Step1Call
    \/ Step1Unavailable
    \/ Step1Return
    \/ Step2Call
    \/ Step2Skip
    \/ Step2Return
    \/ Step3Call
    \/ Step3Skip
    \/ Step3Return
    \/ Step4Call
    \/ Step4Skip
    \/ Step4Return
    \/ Step5
    \/ Finish

Spec == Init /\ [][Next]_vars

\* Every call of a provider is made with a timeout (8000 ms at 1329, 5000 ms
\* and more in the adapters), so every await settles, and the code between
\* two awaits runs to its end: the handler always takes its next step.
LiveSpec == Init /\ [][Next]_vars /\ WF_vars(Next)

(***************************************************************************)
(* normalizeIngredient and calculateMatchPercentage on their own           *)
(***************************************************************************)
MaxFragments == 3           \* pieces an input of normalizeIngredient is made of
MaxUserIngredients == 2     \* longest user ingredient list scored
MaxRecipeIngredients == 4   \* longest recipe ingredient list scored

Fragments == {"red ", " onion", "chopped", "Fresh", " ", "-", "_", "s"}

RECURSIVE Concat(_)
Concat(pieces) == IF Len(pieces) = 0 THEN "" ELSE pieces[1] \o Concat(Tail(pieces))

NormInputs == { Concat(p) : p \in UNION { [1..n -> Fragments] : n \in 0..MaxFragments } }

NormInit ==
    /\ HandlerIdle
    /\ fnIn \in NormInputs
    /\ fnOut = <<>>
    /\ BrowserIdle

\* normalizeIngredient applied to the input
NormalizeOnce ==
    /\ pc = "idle"
    /\ Len(fnOut) = 0
    /\ fnOut' = <<normalizeIngredient(fnIn)>>
    /\ UNCHANGED <<handlerVars, table, fnIn, browserVars>>

\* normalizeIngredient applied to its own result
NormalizeAgain ==
    /\ pc = "idle"
    /\ Len(fnOut) = 1
    /\ fnOut' = Append(fnOut, normalizeIngredient(fnOut[1]))
    /\ UNCHANGED <<handlerVars, table, fnIn, browserVars>>

NormNext == NormalizeOnce \/ NormalizeAgain

NormSpec == NormInit /\ [][NormNext]_vars

UserPool == {"chicken", "rice", "Fresh"}
RecipePool == {"chicken breast", "Chopped Rice", "salt"}

ScoreInputs ==
    [user   : UNION { [1..n -> UserPool] : n \in 0..MaxUserIngredients },
     recipe : UNION { [1..n -> RecipePool] : n \in 0..MaxRecipeIngredients }]

ScoreInit ==
    /\ HandlerIdle
    /\ fnIn \in ScoreInputs
    /\ fnOut = <<>>
    /\ BrowserIdle

\* calculateMatchPercentage applied to the input
Score ==
    /\ pc = "idle"
    /\ Len(fnOut) = 0
    /\ fnOut' = <<calculateMatchPercentage(fnIn.user, fnIn.recipe)>>
    /\ UNCHANGED <<handlerVars, table, fnIn, browserVars>>

ScoreNext == Score

ScoreSpec == ScoreInit /\ [][ScoreNext]_vars

(***************************************************************************)
(* findLocalRecipes on its own                                             *)
(***************************************************************************)
MaxLocalIngredients == 3    \* longest ingredient list looked up

LocalPool == {"tomato", "onion", "extra", "Fresh", "constructor"}

LocalInputs ==
    [ingredients : UNION { [1..n -> LocalPool] : n \in 0..MaxLocalIngredients }]

LocalInit ==
    /\ HandlerIdle
    /\ fnIn \in LocalInputs
    /\ fnOut = <<>>
    /\ BrowserIdle

\* findLocalRecipes applied to the input
FindLocal ==
    /\ pc = "idle"
    /\ Len(fnOut) = 0
    /\ \/ /\ findLocalRecipesThrows(fnIn.ingredients)
          /\ fnOut' = <<[threw |-> TRUE, matchedRecipes |-> <<>>]>>
          /\ UNCHANGED table
       \/ /\ ~findLocalRecipesThrows(fnIn.ingredients)
          /\ fnOut' = <<[threw |-> FALSE,
                         matchedRecipes |-> findLocalRecipes(fnIn.ingredients)]>>
          /\ table' = LocalTableAfter(fnIn.ingredients)
    /\ UNCHANGED <<handlerVars, fnIn, browserVars>>

LocalNext == FindLocal

LocalSpec == LocalInit /\ [][LocalNext]_vars

(***************************************************************************)
(* JSON.parse and the text handling of the generative adapters             *)
(***************************************************************************)
\* the character at position i, "" beyond the end
At(s, i) == IF i \in 1..Len(s) THEN Ch(s, i) ELSE ""

JsonWhitespace == {" ", "\t", "\n", "\r"}
DigitChars == CharsOf(Digits)

RECURSIVE SkipWs(_, _)
SkipWs(s, i) == IF At(s, i) \in JsonWhitespace THEN SkipWs(s, i + 1) ELSE i

\* the position after the digits that start at i
RECURSIVE DigitsEnd(_, _)
DigitsEnd(s, i) == IF At(s, i) \in DigitChars THEN DigitsEnd(s, i + 1) ELSE i

\* the position of the quote that closes the string whose first character
\* is at i, or 0: a control character or a bad escape is a syntax error
RECURSIVE StringEnd(_, _)
StringEnd(s, i) ==
    LET c == At(s, i)
    IN  IF c = "" \/ c \in {"\t", "\n", "\r"} THEN 0
        ELSE IF c = "\"" THEN i
        ELSE IF c = "\\"
             THEN (IF At(s, i + 1) \in {"\"", "\\", "/", "b", "f", "n", "r", "t"}
                   THEN StringEnd(s, i + 2) ELSE 0)
        ELSE StringEnd(s, i + 1)

\* the position after the number that starts at i, or 0
NumberEnd(s, i) ==
    LET a == IF At(s, i) = "-" THEN i + 1 ELSE i
        b == IF At(s, a) = "0" THEN a + 1 ELSE DigitsEnd(s, a)
        c == IF At(s, b) = "."
             THEN (IF DigitsEnd(s, b + 1) > b + 1 THEN DigitsEnd(s, b + 1) ELSE 0)
             ELSE b
        e == IF At(s, c + 1) \in {"+", "-"} THEN c + 2 ELSE c + 1
    IN  IF At(s, a) \notin DigitChars \/ c = 0 THEN 0
        ELSE IF At(s, c) \in {"e", "E"}
             THEN (IF DigitsEnd(s, e) > e THEN DigitsEnd(s, e) ELSE 0)
        ELSE c

StartsAt(s, i, lit) == i + Len(lit) - 1 <= Len(s) /\ SubSeq(s, i, i + Len(lit) - 1) = lit

\* a parsed value: its kind, the position after it, and its own enumerable
\* properties (the members of an object, the elements of an array by index),
\* each with the kind and the text of its value
JsonFail == [ok |-> FALSE, next |-> 0, kind |-> "", members |-> <<>>]
JsonValue(kind, next, members) == [ok |-> TRUE, next |-> next, kind |-> kind, members |-> members]
Member(key, kind, text) == [key |-> key, kind |-> kind, text |-> text]

\* the text of the value between positions from and to: a string's content,
\* any other value's source text
ValueText(s, kind, from, to) ==
    IF kind = "string" THEN SubSeq(s, from + 1, to - 1) ELSE SubSeq(s, from, to)

RECURSIVE ParseValue(_, _)
RECURSIVE ParseMembers(_, _, _)
RECURSIVE ParseElements(_, _, _)

ParseValue(s, i0) ==
    LET i == SkipWs(s, i0)
        c == At(s, i)
    IN  CASE c = "{" ->
               (IF At(s, SkipWs(s, i + 1)) = "}"
                THEN JsonValue("object", SkipWs(s, i + 1) + 1, <<>>)
                ELSE ParseMembers(s, i + 1, <<>>))
          [] c = "[" ->
               (IF At(s, SkipWs(s, i + 1)) = "]"
                THEN JsonValue("array", SkipWs(s, i + 1) + 1, <<>>)
                ELSE ParseElements(s, i + 1, <<>>))
          [] c = "\"" ->
               (IF StringEnd(s, i + 1) = 0 THEN JsonFail
                ELSE JsonValue("string", StringEnd(s, i + 1) + 1, <<>>))
          [] c = "-" \/ c \in DigitChars ->
               (IF NumberEnd(s, i) = 0 THEN JsonFail
                ELSE JsonValue("number", NumberEnd(s, i), <<>>))
          [] StartsAt(s, i, "true") -> JsonValue("boolean", i + 4, <<>>)
          [] StartsAt(s, i, "false") -> JsonValue("boolean", i + 5, <<>>)
          [] StartsAt(s, i, "null") -> JsonValue("null", i + 4, <<>>)
          [] OTHER -> JsonFail

\* the members of an object from position j0 on, after the members acc
ParseMembers(s, j0, acc) ==
    LET j == SkipWs(s, j0)
        e == StringEnd(s, j + 1)
        k == SkipWs(s, e + 1)
        v == ParseValue(s, k + 1)
        m == SkipWs(s, v.next)
        member == Member(SubSeq(s, j + 1, e - 1), v.kind,
                         ValueText(s, v.kind, SkipWs(s, k + 1), v.next - 1))
    IN  IF At(s, j) # "\"" \/ e = 0 \/ At(s, k) # ":" THEN JsonFail
        ELSE IF ~v.ok THEN JsonFail
        ELSE IF At(s, m) = "," THEN ParseMembers(s, m + 1, Append(acc, member))
        ELSE IF At(s, m) = "}" THEN JsonValue("object", m + 1, Append(acc, member))
        ELSE JsonFail

\* the elements of an array from position j0 on, after the elements acc
ParseElements(s, j0, acc) ==
    LET v == ParseValue(s, j0)
        m == SkipWs(s, v.next)
        element == Member(NatToString(Len(acc)), v.kind,
                          ValueText(s, v.kind, SkipWs(s, j0), v.next - 1))
    IN  IF ~v.ok THEN JsonFail
        ELSE IF At(s, m) = "," THEN ParseElements(s, m + 1, Append(acc, element))
        ELSE IF At(s, m) = "]" THEN JsonValue("array", m + 1, Append(acc, element))
        ELSE JsonFail

\* JSON.parse(text); ok = FALSE is the SyntaxError
JSONParse(text) ==
    LET v == ParseValue(text, 1)
    IN  IF v.ok /\ SkipWs(text, v.next) = Len(text) + 1 THEN v ELSE JsonFail

\* the least and the greatest position of the character c in s, 0 if none
FirstIndexOf(s, c) ==
    IF \E i \in 1..Len(s) : Ch(s, i) = c
    THEN CHOOSE i \in 1..Len(s) : Ch(s, i) = c /\ \A j \in 1..(i - 1) : Ch(s, j) # c
    ELSE 0

LastIndexOf(s, c) ==
    IF \E i \in 1..Len(s) : Ch(s, i) = c
    THEN CHOOSE i \in 1..Len(s) : Ch(s, i) = c /\ \A j \in (i + 1)..Len(s) : Ch(s, j) # c
    ELSE 0

\* text.match(/\{[\s\S]*\}/): from the first "{" to the last "}" after it
BraceMatch(text) ==
    LET first == FirstIndexOf(text, "{")
        last  == LastIndexOf(text, "}")
    IN  IF first > 0 /\ last > first
        THEN [found |-> TRUE, text |-> SubSeq(text, first, last)]
        ELSE [found |-> FALSE, text |-> ""]

\* the properties the adapters set after the spread
AdapterKeys == {"source", "modelUsed", "isFree"}

\* { ...parsedRecipe }: the own enumerable properties of the parsed value, a
\* later member replacing an earlier one of the same key; a string spreads
\* into its characters, a number, a boolean and null into nothing
Spread(text, parsed) ==
    IF parsed.kind = "string"
    THEN LET content == ValueText(text, "string", SkipWs(text, 1), parsed.next - 1)
         IN  [i \in 1..Len(content) |-> Member(NatToString(i - 1), "string", Ch(content, i))]
    ELSE parsed.members

RECURSIVE OwnFields(_)
OwnFields(members) ==
    IF Len(members) = 0 THEN <<>>
    ELSE (IF members[1].key \in AdapterKeys
             \/ \E j \in 2..Len(members) : members[j].key = members[1].key
          THEN <<>> ELSE <<members[1]>>)
         \o OwnFields(Tail(members))

\* the recipe an adapter returns for a text that parsed
ParsedRecipe(text, parsed, tag, model) ==
    [source |-> tag, modelUsed |-> model, isFree |-> TRUE,
     fields |-> OwnFields(Spread(text, parsed))]

Quoted(arr) == [i \in 1..Len(arr) |-> "\"" \o arr[i] \o "\""]
JsonOfStrings(arr) == "[" \o join(Quoted(arr), ",") \o "]"

\* what differs between the fallback recipes of the three adapters
FallbackText ==
    [gemini_ai |->
        [name |-> "Gemini", description |-> "Gemini AI-generated recipe using ",
         steps |-> <<"Combine ingredients creatively", "Cook using your preferred method",
                     "Season to taste", "Serve and enjoy">>,
         tips |-> "Adjust based on what you have available"],
     cohere_ai |->
        [name |-> "Cohere", description |-> "Cohere AI-generated recipe using ",
         steps |-> <<"Combine as suggested", "Cook appropriately", "Season well",
                     "Serve hot">>,
         tips |-> "Use your creativity"],
     openrouter_mistral |->
        [name |-> "Mistral", description |-> "Mistral AI-generated recipe using ",
         steps |-> <<"Combine in a bowl or pan", "Cook using your preferred method",
                     "Season to taste", "Serve and enjoy">>,
         tips |-> "Adjust based on what you have available"]]

\* "Fallback: create recipe from text"
FallbackRecipe(tag, model, ingredients) ==
    LET t == FallbackText[tag]
    IN  [source |-> tag \o "_text", modelUsed |-> model, isFree |-> TRUE,
         fields |-> <<
            Member("title", "string",
                   t.name \o " Recipe with "
                       \o (IF Len(ingredients) > 0 /\ ingredients[1] # ""
                           THEN ingredients[1] ELSE "Ingredients")),
            Member("description", "string", t.description \o join(ingredients, ", ")),
            Member("prepTime", "number", "25"),
            Member("servings", "number", "2"),
            Member("ingredients", "array", JsonOfStrings(ingredients)),
            Member("instructions", "array",
                   JsonOfStrings(<<"Prepare " \o join(ingredients, " and ")>> \o t.steps)),
            Member("tips", "string", t.tips) >>]

\* the body of a provider's 2xx response: the field the adapter reads holds
\* a text, or reading it throws a TypeError
NoText == [hasText |-> FALSE, text |-> ""]
Text(t) == [hasText |-> TRUE, text |-> t]

\* generateGeminiRecipe and generateCohereRecipe once workingModel has
\* responded with the body
ScanningAdapter(tag, workingModel, ingredients, body) ==
    IF ~body.hasText THEN Null
    ELSE LET text      == trim(body.text)
             jsonMatch == BraceMatch(text)
         IN  IF jsonMatch.found /\ JSONParse(jsonMatch.text).ok
             THEN ParsedRecipe(jsonMatch.text, JSONParse(jsonMatch.text), tag, workingModel)
             ELSE FallbackRecipe(tag, workingModel, ingredients)

generateGeminiRecipe(ingredients, workingModel, body) ==
    ScanningAdapter("gemini_ai", workingModel, ingredients, body)

generateCohereRecipe(ingredients, workingModel, body) ==
    ScanningAdapter("cohere_ai", workingModel, ingredients, body)

\* generateOpenRouterRecipe once the model has responded with the body
generateOpenRouterRecipe(ingredients, body) ==
    IF ~body.hasText THEN Null
    ELSE LET text == trim(body.text)
         IN  IF JSONParse(text).ok
             THEN ParsedRecipe(text, JSONParse(text), "openrouter_mistral",
                               "mistral-7b-instruct")
             ELSE FallbackRecipe("openrouter_mistral", "mistral-7b-instruct", ingredients)

ResponseTexts ==
    {"{\"title\":\"Soup\",\"prepTime\":5}",
     "Sure! {\"title\": \"Soup\"}\nEnjoy.",
     "{\"title\": Soup}",
     "{\"title\":\"A\"} or {\"title\":\"B\"}",
     "{\"source\":\"me\",\"tips\":null,\"tips\":[1,2.5e1]}",
     "} {",
     "No recipe today",
     "",
     "5",
     "null",
     "[\"Soup\"]",
     "\"Soup\""}

Bodies == {NoText} \cup { Text(t) : t \in ResponseTexts }

AdapterTags == {"gemini_ai", "cohere_ai", "openrouter_mistral"}

AdapterIngredients == {<<>>, <<"kiwi">>, <<"pasta", "egg">>}

AdapterInputs ==
    [adapter : AdapterTags, ingredients : AdapterIngredients, body : Bodies]

AdapterInit ==
    /\ HandlerIdle
    /\ fnIn \in AdapterInputs
    /\ fnOut = <<>>
    /\ BrowserIdle

\* the adapter returns for the body its first model responded with
Generate ==
    /\ pc = "idle"
    /\ Len(fnOut) = 0
    /\ fnOut' =
          <<CASE fnIn.adapter = "gemini_ai" ->
                   generateGeminiRecipe(fnIn.ingredients, GeminiModels[1], fnIn.body)
              [] fnIn.adapter = "cohere_ai" ->
                   generateCohereRecipe(fnIn.ingredients, CohereModels[1], fnIn.body)
              [] fnIn.adapter = "openrouter_mistral" ->
                   generateOpenRouterRecipe(fnIn.ingredients, fnIn.body)>>
    /\ UNCHANGED <<handlerVars, table, fnIn, browserVars>>

AdapterNext == Generate

AdapterSpec == AdapterInit /\ [][AdapterNext]_vars

(***************************************************************************)
(* GET /:id and the application's error handler                            *)
(***************************************************************************)
HexDigits == "0123456789abcdef"

\* the value of the digit c in the radix, -1 if it is no digit of it
DigitValue(c, radix) ==
    LET l == LowerChar(c)
    IN  IF \E v \in 1..radix : Ch(HexDigits, v) = l
        THEN (CHOOSE v \in 1..radix : Ch(HexDigits, v) = l) - 1
        ELSE -1

\* the value of the digits from position i on, after the digits worth acc
RECURSIVE DigitsValue(_, _, _, _)
DigitsValue(s, i, radix, acc) ==
    IF At(s, i) = "" \/ DigitValue(At(s, i), radix) < 0 THEN acc
    ELSE DigitsValue(s, i + 1, radix, acc * radix + DigitValue(At(s, i), radix))

\* parseInt(string): leading white space, a sign, a 0x prefix, then the
\* longest run of digits; NaN when there is none
parseInt(string) ==
    LET s     == TrimStart(string)
        a     == IF At(s, 1) \in {"+", "-"} THEN 2 ELSE 1
        hex   == At(s, a) = "0" /\ At(s, a + 1) \in {"x", "X"}
        radix == IF hex THEN 16 ELSE 10
        start == IF hex THEN a + 2 ELSE a
        value == DigitsValue(s, start, radix, 0)
    IN  IF At(s, start) = "" \/ DigitValue(At(s, start), radix) < 0 THEN NaN
        ELSE Num(IF At(s, 1) = "-" THEN -value ELSE value)

\* the elements of req.query.ingredients when the parameter is repeated
ArrayElements == <<"egg", "pasta">>

\* Object.values(LOCAL_RECIPES) searched with recipes.find(r => r.id === parsedId)
LocalById(parsedId) ==
    LET i == CHOOSE e \in 1..Len(table) :
                 /\ \E r \in 1..Len(table[e].recipes) :
                        table[e].recipes[r].id = parsedId
                 /\ \A d \in 1..(e - 1) : \A r \in 1..Len(table[d].recipes) :
                        table[d].recipes[r].id # parsedId
        found == table[i].recipes
    IN  found[CHOOSE r \in 1..Len(found) :
                   found[r].id = parsedId /\ \A q \in 1..(r - 1) : found[q].id # parsedId]

HasLocalId(parsedId) ==
    \E e \in 1..Len(table) : \E r \in 1..Len(table[e].recipes) :
        table[e].recipes[r].id = parsedId

\* the branch conditions on parsedId; every comparison with NaN is false
InLocalRange(parsedId) == ~parsedId.nan /\ parsedId.val >= 1000 /\ parsedId.val < 2000
InAiRange(parsedId) == ~parsedId.nan /\ parsedId.val >= 3000 /\ parsedId.val <= 3002

\* ingredients ? ingredients.split(',').map(i => i.trim()) : [...]
IngredientList(ingredients) ==
    IF Falsy(ingredients) THEN <<"chicken", "rice", "vegetables">>
    ELSE TrimAll(split(ingredients.val, ","))

\* ingredientList[i] || fallback, with i counted from 0
ElementOr(ingredientList, i, fallback) ==
    IF i + 1 <= Len(ingredientList) /\ ingredientList[i + 1] # ""
    THEN ingredientList[i + 1] ELSE fallback

\* the three fixed AI details, by parsedId - 3000 + 1
AiDetails ==
    << [title |-> "Gemini AI Fusion Dish", prepTime |-> 25, servings |-> 2,
        fallbacks |-> <<"chicken", "rice", "onion">>],
       [title |-> "Cohere AI Quick Meal", prepTime |-> 20, servings |-> 2,
        fallbacks |-> <<"pasta", "tomato", "cheese">>],
       [title |-> "Mistral AI Smart Creation", prepTime |-> 30, servings |-> 2,
        fallbacks |-> <<"chicken", "bell pepper", "onion">>] >>

FirstThree(ingredientList, fallbacks) ==
    [i \in 1..3 |-> ElementOr(ingredientList, i - 1, fallbacks[i])]

DetailOk(recipe) == [status |-> 200, success |-> TRUE, recipe |-> recipe]

LocalDetail(recipe) ==
    DetailOk([id |-> Num(recipe.id),
              readyInMinutes |-> IF recipe.prepTime # 0 THEN recipe.prepTime ELSE 20,
              servings |-> IF recipe.servings # 0 THEN recipe.servings ELSE 2,
              ingredients |-> recipe.ingredients,
              source |-> "local"])

AiDetail(parsedId, ingredientList) ==
    LET aiRecipe == AiDetails[parsedId.val - 3000 + 1]
    IN  DetailOk([id |-> parsedId,
                  title |-> aiRecipe.title,
                  readyInMinutes |-> aiRecipe.prepTime,
                  servings |-> aiRecipe.servings,
                  ingredients |-> FirstThree(ingredientList, aiRecipe.fallbacks),
                  source |-> "ai_generated"])

\* "Fallback details for other recipe IDs"
GenericDetail(parsedId, ingredientList) ==
    DetailOk([id |-> parsedId,
              title |-> "Delicious Recipe Creation",
              readyInMinutes |-> 30,
              servings |-> 2,
              ingredients |-> FirstThree(ingredientList, <<"chicken", "rice", "onion">>),
              source |-> "custom"])

\* the catch of the route
DetailError == [status |-> 500, success |-> FALSE, error |-> "Failed to fetch recipe details"]

\* the application's error handler, for a request whose URL includes
\* /api/recipes: req.query.ingredients || 'food' appended to the URL
AppErrorResponse(ingredients) ==
    [status |-> 500, success |-> FALSE, error |-> "Recipe service error", fallback |-> TRUE,
     message |-> "Using emergency recipes",
     emergencyEndpoint |->
        "/api/emergency-recipes?ingredients="
            \o (IF Falsy(ingredients) THEN "food"
                ELSE IF ingredients.kind = "array" THEN join(ArrayElements, ",")
                ELSE ingredients.val)]

IdStrings ==
    {"1001", "1013", "1015", "1016", "1500", "1999", "2000", "999", "3000", "3001", "3002",
     "3003", "42", "abc", "1001abc", " 1013", "-1001", "0x3E9"}

\* a request of GET /:id: the path parameter, the query, and whether the
\* request carries a body that express.json() rejects
DetailRequests == [id : IdStrings, ingredients : IngredientParams, badBody : BOOLEAN]

DetailInit ==
    /\ cfg \in {[spoonacular |-> FALSE, gemini |-> FALSE, cohere |-> FALSE,
                 openRouter |-> FALSE]}
    /\ query \in DetailRequests
    /\ pc = "detail"
    /\ ingredientsArray = <<>>
    /\ normalizedIngredients = <<>>
    /\ recipes = <<>>
    /\ source = "unknown"
    /\ fallbackLevel = 0
    /\ modelIdx = 0
    /\ inflight = 0
    /\ calls = <<>>
    /\ results = <<>>
    /\ response = NoResponse
    /\ fnIn = <<>>
    /\ fnOut = <<>>
    /\ BrowserIdle
    /\ table = LOCAL_RECIPES
    /\ reqs = <<>>

\* what router.get('/:id') answers
DetailResponse(q) ==
    LET parsedId == parseInt(q.id)
    IN  IF InLocalRange(parsedId) /\ HasLocalId(parsedId.val)
        THEN LocalDetail(LocalById(parsedId.val))
        ELSE IF q.ingredients.kind = "array"       \* ingredients.split is not a function
        THEN DetailError
        ELSE IF InAiRange(parsedId)
        THEN AiDetail(parsedId, IngredientList(q.ingredients))
        ELSE GenericDetail(parsedId, IngredientList(q.ingredients))

\* router.get('/:id')
GetById ==
    /\ pc = "detail"
    /\ ~query.badBody
    /\ response' = DetailResponse(query)
    /\ pc' = "done"
    /\ UNCHANGED <<cfg, table, reqs, query, locals, modelIdx, inflight, calls, results,
                   fnIn, browserVars, fnOut>>

\* express.json() passes its error to next: the route is skipped and the
\* application's error handler answers
JsonBodyRejected ==
    /\ pc = "detail"
    /\ query.badBody
    /\ response' = AppErrorResponse(query.ingredients)
    /\ pc' = "done"
    /\ UNCHANGED <<cfg, table, reqs, query, locals, modelIdx, inflight, calls, results,
                   fnIn, browserVars, fnOut>>

DetailNext == GetById \/ JsonBodyRejected

DetailSpec == DetailInit /\ [][DetailNext]_vars

(***************************************************************************)
(* A server that handles several requests at once                          *)
(*                                                                         *)
(* The code of a handler between two awaits runs without interruption, so  *)
(* the handlers of concurrent requests interleave at their awaits.  Every  *)
(* request has its own ingredientsArray, normalizedIngredients, recipes,   *)
(* source and fallbackLevel; the availability flags and LOCAL_RECIPES are  *)
(* the module's.  The server is one started without the structured         *)
(* provider's key.                                                         *)
(***************************************************************************)
MaxConcurrent == 2      \* requests handled at once

\* STEP 2 to STEP 4, by step number
Tiers ==
    [t \in 2..4 |->
        CASE t = 2 -> [avail |-> cfg.gemini, models |-> GeminiModels, tag |-> "gemini_ai",
                       id |-> 3000, match |-> 95,
                       ok |-> LevelGemini, failed |-> LevelGeminiFailed]
          [] t = 3 -> [avail |-> cfg.cohere, models |-> CohereModels, tag |-> "cohere_ai",
                       id |-> 3001, match |-> 90,
                       ok |-> LevelCohere, failed |-> LevelCohereFailed]
          [] t = 4 -> [avail |-> cfg.openRouter, models |-> OpenRouterModels,
                       tag |-> "openrouter_mistral", id |-> 3002, match |-> 85,
                       ok |-> LevelOpenRouter, failed |-> LevelOpenRouterFailed]]

\* a request and the variables of its handler
Arrived(q) ==
    [query |-> q, pc |-> "received", tier |-> 0, modelIdx |-> 0,
     ingredientsArray |-> <<>>, normalizedIngredients |-> <<>>,
     recipes |-> <<>>, source |-> "unknown", fallbackLevel |-> 0,
     got |-> <<>>, lookedUp |-> FALSE, overlapped |-> FALSE, response |-> NoResponse]

Responded(l, resp) == [l EXCEPT !.pc = "done", !.response = resp]

\* the sort, the limit and res.json
Send(l, all, src, level, local) ==
    Responded([l EXCEPT !.recipes = SortByMatch(all), !.source = src,
                        !.fallbackLevel = level, !.lookedUp = local],
              Envelope(slice(SortByMatch(all), Limit(l.query.number)), src, level,
                       l.ingredientsArray))

\* the emergency step and what follows it
Emergency(l, found, src, level, local) ==
    IF NeedsNextTier(found)
    THEN Send(l, <<EmergencyRecipe>>, "emergency", LevelEmergency, local)
    ELSE Send(l, found, src, level, local)

\* STEP 5 and what follows it
Complete(l) ==
    IF ~NeedsNextTier(l.recipes)
    THEN Emergency(l, l.recipes, l.source, l.fallbackLevel, FALSE)
    ELSE IF findLocalRecipesThrows(l.normalizedIngredients)
    THEN Responded([l EXCEPT !.source = "local"], ServerError)
    ELSE Emergency(l, LocalTierRecipes(findLocalRecipes(l.normalizedIngredients),
                                       l.normalizedIngredients),
                   "local", LevelLocal, TRUE)

\* the handler from the top of step t to its next await, or to its response
RECURSIVE Advance(_, _)
Advance(l, t) ==
    IF t = 5 THEN Complete(l)
    ELSE IF NeedsNextTier(l.recipes) /\ Tiers[t].avail
    THEN [l EXCEPT !.pc = "await", !.tier = t, !.modelIdx = 1]
    ELSE IF NeedsNextTier(l.recipes)
    THEN Advance([l EXCEPT !.fallbackLevel = Tiers[t].failed], t + 1)
    ELSE Advance(l, t + 1)

\* the handler from the arrival of the request to its first await, on a server
\* without the key of Spoonacular: STEP 1 makes no call
BeginRequest(q) ==
    IF q.kind = "detail" THEN Responded(Arrived(q), DetailResponse(q))
    ELSE IF Falsy(q.ingredients) THEN Responded(Arrived(q), BadRequest)
    ELSE IF q.ingredients.kind = "array" THEN Responded(Arrived(q), ServerError)
    ELSE LET arr == FilterNonEmpty(TrimAll(split(q.ingredients.val, ",")))
         IN  Advance([Arrived(q) EXCEPT !.ingredientsArray = arr,
                                        !.normalizedIngredients = NormalizeAll(arr),
                                        !.fallbackLevel = LevelSpoonacularFailed],
                     2)

\* the handler from the return of the adapter it awaits ("recipe" or "null")
\* to its next await
Resume(l, result) ==
    LET tier == Tiers[l.tier]
        next == IF result = "recipe"
                THEN [l EXCEPT !.recipes = <<Recipe(tier.id, tier.match, tier.tag)>>,
                               !.source = tier.tag,
                               !.fallbackLevel = tier.ok]
                ELSE [l EXCEPT !.fallbackLevel = tier.failed]
    IN  Advance([next EXCEPT !.got = Append(l.got, result), !.modelIdx = 0], l.tier + 1)

ServerQueries ==
    { [kind |-> "search", id |-> "", ingredients |-> Str(s), number |-> Num(DefaultNumber)] :
        s \in {"tomato", "pasta,tomato", "kiwi"} }
        \cup {[kind |-> "detail", id |-> "1003", ingredients |-> Absent,
               number |-> Num(DefaultNumber)]}

ServerInit ==
    /\ cfg = [spoonacular |-> FALSE, gemini |-> TRUE, cohere |-> FALSE, openRouter |-> FALSE]
    /\ query = [ingredients |-> Absent, number |-> Num(DefaultNumber)]
    /\ pc = "idle"
    /\ ingredientsArray = <<>>
    /\ normalizedIngredients = <<>>
    /\ recipes = <<>>
    /\ source = "unknown"
    /\ fallbackLevel = 0
    /\ modelIdx = 0
    /\ inflight = 0
    /\ calls = <<>>
    /\ results = <<>>
    /\ response = NoResponse
    /\ fnIn = <<>>
    /\ fnOut = <<>>
    /\ BrowserIdle
    /\ table = LOCAL_RECIPES
    /\ reqs \in [1..MaxConcurrent -> { Arrived(q) : q \in ServerQueries }]

\* some other request is suspended on a provider call
OtherAwaits(r) == \E o \in DOMAIN reqs : o # r /\ reqs[o].pc = "await"

\* what the handler's run to its next await leaves in the slot and in the table
Ran(r, l) ==
    /\ reqs' = [reqs EXCEPT ![r] = [l EXCEPT !.overlapped = l.pc = "done" /\ OtherAwaits(r)]]
    /\ table' = IF l.lookedUp THEN LocalTableAfter(l.normalizedIngredients) ELSE table
    /\ UNCHANGED <<cfg, query, pc, locals, modelIdx, inflight, calls, results, response,
                   fnIn, browserVars, fnOut>>

\* the handler of a request starts
Begin ==
    \E r \in DOMAIN reqs :
        /\ reqs[r].pc = "received"
        /\ Ran(r, BeginRequest(reqs[r].query))

\* a call of the adapter a handler awaits settles
Settle ==
    \E r \in DOMAIN reqs :
        /\ reqs[r].pc = "await"
        /\ \E outcome \in GenerativeOutcomes :
              LET l      == reqs[r]
                  tier   == Tiers[l.tier]
                  result == AdapterResult(tier.tag, outcome, tier.models[l.modelIdx])
              IN  IF outcome = "fail" /\ l.modelIdx < Len(tier.models)
                  THEN Ran(r, [l EXCEPT !.modelIdx = l.modelIdx + 1])
                  ELSE IF outcome = "fail" \/ result = Null
                  THEN Ran(r, Resume(l, "null"))
                  ELSE Ran(r, Resume(l, "recipe"))

ServerNext == Begin \/ Settle

ServerSpec == ServerInit /\ [][ServerNext]_vars

(***************************************************************************)
(* RecipeModal (src/unnamed/part_001): the favourites                      *)
(*                                                                         *)
(* The modal is given the id of a recipe card, a number the search route   *)
(* returned.  It is rendered when a card is opened and removed by onClose; *)
(* while it is rendered its recipeId may change, and the effect then       *)
(* fetches again with the state kept.  The button that calls               *)
(* toggleFavorite is rendered only when loading is false and recipe is     *)
(* set (349-362).                                                          *)
(***************************************************************************)
MaxFavorites == 3    \* longest favourites list a toggle adds to

RecipeIds == {Num(1001), Num(3000)}

DecimalDigits == "0123456789"

\* String(n) of a non-negative integer, as the template literal of the URL
\* and parseInt's conversion of its argument produce it
RECURSIVE DecimalString(_)
DecimalString(n) ==
    IF n < 10 THEN Ch(DecimalDigits, n + 1)
    ELSE DecimalString(n \div 10) \o Ch(DecimalDigits, (n % 10) + 1)

\* favorites.some(fav => fav.id === id)
StoredAsFavorite(id) == \E i \in 1..Len(storage) : storage[i].id = id

\* fetchRecipeDetails up to its await: setLoading(true), api.get
FetchStarted(m, id) ==
    [m EXCEPT !.recipeId = id, !.loading = TRUE, !.pending = @ \cup {id}]

\* a card is opened: the component is rendered with its initial state, and
\* the effect calls fetchRecipeDetails
OpenModal ==
    /\ pc = "idle"
    /\ ~modal.mounted
    /\ \E id \in RecipeIds :
          modal' = FetchStarted([Unmounted EXCEPT !.mounted = TRUE, !.loading = TRUE], id)
    /\ UNCHANGED <<handlerVars, table, fnVars, storage>>

\* recipeId changes while the modal is rendered: the effect runs again
ChangeRecipeId ==
    /\ pc = "idle"
    /\ modal.mounted
    /\ \E id \in RecipeIds \ {modal.recipeId} : modal' = FetchStarted(modal, id)
    /\ UNCHANGED <<handlerVars, table, fnVars, storage>>

\* api.get of the call made for id resolves: the route answers with
\* id: parseInt(req.params.id), and isFavorite is read from the list
FetchSucceeds ==
    /\ pc = "idle"
    /\ modal.mounted
    /\ \E id \in modal.pending :
       \E parsedId \in {parseInt(DecimalString(id.val))} :
          modal' = [modal EXCEPT !.recipe = [id |-> parsedId, source |-> "server"],
                                 !.isFavorite = StoredAsFavorite(parsedId),
                                 !.loading = FALSE,
                                 !.pending = @ \ {id}]
    /\ UNCHANGED <<handlerVars, table, fnVars, storage>>

\* api.get rejects: the catch sets the fallback recipe with id: recipeId and
\* leaves isFavorite as it is
FetchFails ==
    /\ pc = "idle"
    /\ modal.mounted
    /\ \E id \in modal.pending :
          modal' = [modal EXCEPT !.recipe = [id |-> id, source |-> "fallback"],
                                 !.loading = FALSE,
                                 !.pending = @ \ {id}]
    /\ UNCHANGED <<handlerVars, table, fnVars, storage>>

\* a click on the heart
toggleFavorite ==
    /\ pc = "idle"
    /\ modal.mounted
    /\ ~modal.loading
    /\ modal.recipe # NoRecipe
    /\ \/ /\ modal.isFavorite
          /\ LET Kept(fav) == fav.id # modal.recipe.id
             IN  storage' = SelectSeq(storage, Kept)
          /\ modal' = [modal EXCEPT !.isFavorite = FALSE]
       \/ /\ ~modal.isFavorite
          /\ Len(storage) < MaxFavorites
          /\ storage' = Append(storage, [id |-> modal.recipe.id])
          /\ modal' = [modal EXCEPT !.isFavorite = TRUE]
    /\ UNCHANGED <<handlerVars, table, fnVars>>

\* onClose: the component is removed, and what its calls settle with is dropped
CloseModal ==
    /\ pc = "idle"
    /\ modal.mounted
    /\ modal' = Unmounted
    /\ UNCHANGED <<handlerVars, table, fnVars, storage>>

ModalInit ==
    /\ HandlerIdle
    /\ fnIn = <<>>
    /\ fnOut = <<>>
    /\ BrowserIdle

ModalNext ==
    \/ OpenModal
    \/ ChangeRecipeId
    \/ FetchSucceeds
    \/ FetchFails
    \/ toggleFavorite
    \/ CloseModal

ModalSpec == ModalInit /\ [][ModalNext]_vars

(***************************************************************************)
(* Properties                                                              *)
(***************************************************************************)
\* the tiers in their priority order
TierRank(tier) ==
    CASE tier = "spoonacular" -> 1
      [] tier = "gemini"      -> 2
      [] tier = "cohere"      -> 3
      [] tier = "openrouter"  -> 4
      [] tier = "local"       -> 5

Last(arr) == arr[Len(arr)]

Origins(rs) == { rs[i].source : i \in 1..Len(rs) }

\* the tier whose invocation yields recipes of this origin
OriginTier(origin) ==
    CASE origin = "spoonacular"        -> "spoonacular"
      [] origin = "gemini_ai"          -> "gemini"
      [] origin = "cohere_ai"          -> "cohere"
      [] origin = "openrouter_mistral" -> "openrouter"
      [] OTHER                         -> "local"

Returned(tier, result) == \E i \in 1..Len(results) : results[i] = [tier |-> tier, result |-> result]

\* the structured provider gave nothing: not configured, or its call failed,
\* or it returned an empty array
StructuredFailed ==
    ~cfg.spoonacular \/ Returned("spoonacular", "error") \/ Returned("spoonacular", "empty")

\* the request has no ingredient: no parameter, or no token that is not blank
NoIngredients(p) ==
    \/ p.kind = "absent"
    \/ p.kind = "string" /\ FilterNonEmpty(TrimAll(split(p.val, ","))) = <<>>

\* C1: once a tier has produced a non-empty recipe list no later tier is
\* invoked: a tier (provider or local-table lookup) is invoked only while the
\* recipe list is empty and only after every tier invoked before it in the
\* order structured, B, C, D, local; and the emergency recipe is substituted
\* only for an empty list.
C1_NoTierAfterSuccess ==
    [][ /\ (calls' # calls) =>
              /\ Len(recipes) = 0
              /\ \E tier \in {"spoonacular", "gemini", "cohere", "openrouter", "local"} :
                    /\ calls' = Append(calls, tier)
                    /\ \A i \in 1..Len(calls) : TierRank(calls[i]) < TierRank(tier)
        /\ (source' = "emergency" /\ source # "emergency") => Len(recipes) = 0 ]_vars

\* the structured provider answered with recipes while B, C and D were
\* configured, and nothing else was invoked
C1_Witness ==
    /\ pc = "done"
    /\ response.status = 200
    /\ response.source = "spoonacular"
    /\ cfg.gemini /\ cfg.cohere /\ cfg.openRouter
    /\ calls = <<"spoonacular">>

\* C2: the recipe list never mixes origins, and in a successful response it
\* has exactly one origin, which is that of the last tier invoked (or the
\* emergency recipe), and every recipe sent carries it.
C2_SingleOrigin ==
    /\ Cardinality(Origins(recipes)) <= 1
    /\ (pc = "done" /\ response.status = 200) =>
          /\ Cardinality(Origins(recipes)) = 1
          /\ Origins(response.recipes) \subseteq Origins(recipes)
          /\ \A origin \in Origins(recipes) :
                /\ calls # <<>>
                /\ OriginTier(origin) = Last(calls)

\* two tiers were invoked and failed before the local table gave several recipes
C2_Witness ==
    /\ pc = "done"
    /\ response.status = 200
    /\ Len(response.recipes) >= 2
    /\ Len(calls) >= 3
    /\ Origins(response.recipes) = {"local"}

\* C3: every assignment leaves fallbackLevel in 0..9 and never lowers it.
C3_LevelMonotone ==
    [][fallbackLevel' \in 0..9 /\ fallbackLevel' >= fallbackLevel]_vars

\* every provider was configured and failed in turn, and the local tier answered
C3_Witness ==
    /\ pc = "done"
    /\ response.status = 200
    /\ response.fallbackLevel = LevelLocal
    /\ Returned("spoonacular", "error")
    /\ Returned("gemini", "null")
    /\ Returned("cohere", "null")
    /\ Returned("openrouter", "null")

\* C4: when the structured provider gave nothing and adapter B returned a
\* recipe, the response has source gemini_ai, a fallback level of 2 or 3 and
\* exactly the one recipe wrapped from B's output.
C4_GeminiResponse ==
    (pc = "done" /\ StructuredFailed /\ Returned("gemini", "recipe")) =>
        /\ response.status = 200
        /\ response.source = "gemini_ai"
        /\ response.fallbackLevel \in {LevelGemini, LevelGeminiFailed}
        /\ response.recipes = <<Recipe(3000, 95, "gemini_ai")>>

\* C5: when no provider gave a recipe and the local table has no match, the
\* response has success = true, source "generated" or "emergency", and at
\* least one recipe.
C5_FullFailure ==
    (/\ pc = "done"
     /\ "local" \in SeqToSet(calls)
     /\ ~findLocalRecipesThrows(normalizedIngredients)
     /\ findLocalRecipes(normalizedIngredients) = <<>>) =>
        /\ response.status = 200
        /\ response.success
        /\ response.source \in {"generated", "emergency"}
        /\ Len(response.recipes) >= 1

\* C6: a request that passes validation ends with a success = true response,
\* whatever the providers do.
C6_NeverFailsVisibly ==
    (pc = "done" /\ query.ingredients.kind = "string" /\ ~Falsy(query.ingredients)) =>
        /\ response.status = 200
        /\ response.success

\* C7: a request without ingredients (no parameter, an empty one, or only
\* blank tokens) is answered 400 with success = false and invokes no tier.
C7_NoIngredientsRejected ==
    (pc = "done" /\ NoIngredients(query.ingredients)) =>
        /\ response.status = 400
        /\ ~response.success
        /\ calls = <<>>

\* C8: normalizeIngredient is idempotent.
C8_NormalizeIdempotent ==
    Len(fnOut) = 2 => fnOut[2] = fnOut[1]

\* C9: calculateMatchPercentage returns 10 for an empty recipe list, 0 for a
\* non-empty recipe list and an empty user list, and otherwise an integer
\* from 15 to 98.
C9_ScoreRange ==
    (pc = "idle" /\ Len(fnOut) = 1) =>
        /\ Len(fnIn.recipe) = 0 => fnOut[1] = 10
        /\ (Len(fnIn.recipe) > 0 /\ Len(fnIn.user) = 0) => fnOut[1] = 0
        /\ (Len(fnIn.recipe) > 0 /\ Len(fnIn.user) > 0) => fnOut[1] \in 15..98

\* a recipe none of whose ingredients match is scored at the floor
C9_Witness ==
    /\ pc = "idle"
    /\ Len(fnOut) = 1
    /\ Len(fnIn.recipe) > 0
    /\ Len(fnIn.user) > 0
    /\ fnOut[1] = 15

\* C10: every recipe of a search response has a match percentage from 15 to
\* 98, or 0 or 10.
C10_MatchPercentageRange ==
    (pc = "done" /\ response.status = 200) =>
        \A i \in 1..Len(response.recipes) :
            response.recipes[i].matchPercentage \in (15..98) \cup {0, 10}

\* the user ingredients (by position) that contain, or are contained in, some
\* ingredient of the key
Matching(normalized, key) ==
    { u \in 1..Len(normalized) :
        \E k \in SeqToSet(split(key, ",")) :
            includes(normalizeIngredient(k), normalized[u])
                \/ includes(normalized[u], normalizeIngredient(k)) }

\* the partial matches returned for a recipe: the results that carry its id
\* and a matchScore
PartialResults(matchedRecipes, id) ==
    { j \in 1..Len(matchedRecipes) :
        matchedRecipes[j].id = id /\ "matchScore" \in DOMAIN matchedRecipes[j] }

\* C11: findLocalRecipes includes the recipes of a key other than the exact
\* key if and only if the ratio of matching user ingredients to user
\* ingredients is at least one half (an empty list has no ratio), each once
\* and annotated with matchScore = round(100 * matches / count).
C11_PartialMatch ==
    (pc = "idle" /\ Len(fnOut) = 1 /\ ~fnOut[1].threw) =>
        LET normalized == NormalizeAll(fnIn.ingredients)
            n          == Len(normalized)
            out        == fnOut[1].matchedRecipes
        IN  \A i \in 1..Len(LOCAL_RECIPES) :
                LOCAL_RECIPES[i].key # join(normalized, ",") =>
                    LET m == Cardinality(Matching(normalized, LOCAL_RECIPES[i].key))
                    IN  \A r \in 1..Len(LOCAL_RECIPES[i].recipes) :
                            LET found == PartialResults(out, LOCAL_RECIPES[i].recipes[r].id)
                            IN  IF n > 0 /\ 2 * m >= n
                                THEN /\ Cardinality(found) = 1
                                     /\ \A j \in found :
                                          /\ 2 * n * out[j].matchScore - 200 * m > -n
                                          /\ 2 * n * out[j].matchScore - 200 * m <= n
                                ELSE found = {}

\* [tomato, onion, extra]: the recipe of key "tomato,onion" is included at 67,
\* the recipe of key "pasta,egg" is not
C11_Witness ==
    /\ pc = "idle"
    /\ Len(fnOut) = 1
    /\ fnIn.ingredients = <<"tomato", "onion", "extra">>
    /\ \E j \in PartialResults(fnOut[1].matchedRecipes, 1013) :
          fnOut[1].matchedRecipes[j].matchScore = 67
    /\ PartialResults(fnOut[1].matchedRecipes, 1001) = {}

\* C12: in a successful search response the envelope's source is the origin
\* tag of every recipe of the list, and the message is the one keyed to the
\* envelope's source.
C12_EnvelopeSource ==
    (pc = "done" /\ response.status = 200) =>
        /\ \A i \in 1..Len(response.recipes) :
              response.recipes[i].source = response.source
        /\ response.message = getMessageBySource(response.source, response.count)

\* the text holds a JSON object: some part of it parses to an object
HoldsJsonObject(text) ==
    \E a \in 1..Len(text) : \E b \in a..Len(text) :
        Ch(text, a) = "{" /\ Ch(text, b) = "}"
            /\ JSONParse(SubSeq(text, a, b)).kind = "object"

\* C13: when a model has responded with a text, the adapter returns a recipe,
\* not null; when the text holds no JSON object that parses, the recipe is
\* the one synthesized from the input ingredients.
C13_AdapterRecovers ==
    (pc = "idle" /\ Len(fnOut) = 1 /\ fnIn.body.hasText) =>
        /\ fnOut[1] # Null
        /\ ~HoldsJsonObject(fnIn.body.text) =>
              \E model \in SeqToSet(GeminiModels) \cup SeqToSet(CohereModels)
                               \cup {"mistral-7b-instruct"} :
                  fnOut[1] = FallbackRecipe(fnIn.adapter, model, fnIn.ingredients)

\* C14: the count of a search response is the length of its recipes list,
\* and that length is at most 15 and at most the requested number (when the
\* parameter is a number).
C14_CountAndLimit ==
    (pc = "done" /\ response.status = 200) =>
        /\ response.count = Len(response.recipes)
        /\ Len(response.recipes) <= 15
        /\ ~query.number.nan => Len(response.recipes) <= query.number.val

\* C20: no search request that passes the validation reaches the emergency
\* step: the recipe list is never empty after STEP 5, and no response has
\* fallback level 9 or source "emergency".
C20_EmergencyUnreachable ==
    /\ (pc = "finish" /\ "local" \in SeqToSet(calls)) => Len(recipes) > 0
    /\ (pc = "done" /\ response.status = 200) =>
          /\ response.fallbackLevel # LevelEmergency
          /\ response.source # "emergency"

AwaitingCall == {"await_spoonacular", "await_gemini", "await_cohere", "await_openrouter"}

\* C17: within one search request at most one provider call is in flight,
\* and while it is the handler is suspended on it: the next tier, or the
\* next model identifier, is called only once the call has settled.
C17_OneCallInFlight ==
    /\ inflight \in {0, 1}
    /\ inflight = 1 <=> pc \in AwaitingCall

\* adapter C is trying its second model after adapter B has returned null
C17_Witness ==
    /\ pc = "await_cohere"
    /\ inflight = 1
    /\ modelIdx = 2
    /\ Returned("gemini", "null")
    /\ calls = <<"gemini", "cohere">>

\* C15: the detail endpoint answers by id range: an id in 1000..1999 from
\* the local table (source local), an id in 3000..3002 with the fixed detail
\* of the matching generative tier, any other id with the generic detail.
C15_DetailByRange ==
    (pc = "done" /\ ~query.badBody) =>
        LET parsedId == parseInt(query.id)
        IN  /\ response.status = 200
            /\ IF ~parsedId.nan /\ parsedId.val \in 1000..1999
               THEN response.recipe.source = "local"
               ELSE IF ~parsedId.nan /\ parsedId.val \in 3000..3002
               THEN /\ response.recipe.source = "ai_generated"
                    /\ response.recipe.title =
                          <<"Gemini AI Fusion Dish", "Cohere AI Quick Meal",
                            "Mistral AI Smart Creation">>[parsedId.val - 2999]
               ELSE /\ response.recipe.source = "custom"
                    /\ response.recipe.title = "Delicious Recipe Creation"

\* C16: every 500 response to a recipe request carries a suggested
\* emergency-endpoint URL.
C16_ErrorCarriesEmergencyUrl ==
    (pc = "done" /\ response.status = 500) =>
        /\ "emergencyEndpoint" \in DOMAIN response
        /\ includes(response.emergencyEndpoint, "/api/emergency-recipes")

\* the handler's run of a request on its own, the adapters it awaits
\* returning the results got, in order
RECURSIVE RunFrom(_, _)
RunFrom(l, got) ==
    IF l.pc = "done" \/ Len(got) = 0 THEN l ELSE RunFrom(Resume(l, got[1]), Tail(got))

RunAlone(q, got) == RunFrom(BeginRequest(q), got)

ScoredUsers == { normalizeIngredient(fnIn.user[u]) : u \in 1..Len(fnIn.user) }

\* the recipe ingredients (by position) that equal a user ingredient
ExactlyMatched ==
    { i \in 1..Len(fnIn.recipe) : normalizeIngredient(fnIn.recipe[i]) \in ScoredUsers }

\* those that do not, and contain a user ingredient or are contained in one
PartlyMatched ==
    { i \in (1..Len(fnIn.recipe)) \ ExactlyMatched :
        \E u \in ScoredUsers :
            \/ includes(normalizeIngredient(fnIn.recipe[i]), u)
            \/ includes(u, normalizeIngredient(fnIn.recipe[i])) }

\* sum / count * 100, times 1.2 for at most 3 ingredients, rounded half up:
\* the sum is in tenths, so the percentage is ReferenceNum / ReferenceDen
ReferenceNum ==
    (10 * Cardinality(ExactlyMatched) + 6 * Cardinality(PartlyMatched)) * 100
        * (IF Len(fnIn.recipe) <= 3 THEN 12 ELSE 10)

ReferenceDen == Len(fnIn.recipe) * 100

ReferenceRounded == (2 * ReferenceNum + ReferenceDen) \div (2 * ReferenceDen)

\* C21: for non-empty inputs calculateMatchPercentage is 1.0 per exactly
\* matching recipe ingredient plus 0.6 per partly matching one (once, however
\* many user ingredients match), divided by the number of recipe ingredients,
\* times 100, times 1.2 for at most 3 ingredients, rounded and clamped to
\* 15..98; a recipe whose ingredients all match exactly scores 98.
C21_ScoreIsReference ==
    (pc = "idle" /\ Len(fnOut) = 1 /\ Len(fnIn.recipe) > 0 /\ Len(fnIn.user) > 0) =>
        /\ fnOut[1] = IF ReferenceRounded < 15 THEN 15
                      ELSE IF ReferenceRounded > 98 THEN 98 ELSE ReferenceRounded
        /\ Cardinality(ExactlyMatched) = Len(fnIn.recipe) => fnOut[1] = 98

\* a recipe ingredient that two user ingredients match partly, scored once
C21_Witness ==
    /\ pc = "idle"
    /\ Len(fnOut) = 1
    /\ fnIn.user = <<"chicken", "Fresh">>
    /\ fnIn.recipe = <<"chicken breast">>
    /\ fnOut[1] = 72


\* the lists with the elements of arr in another order
Reorderings(arr) ==
    { [i \in 1..Len(arr) |-> arr[f[i]]] :
        f \in { g \in [1..Len(arr) -> 1..Len(arr)] :
                  \A a, b \in 1..Len(arr) : a # b => g[a] # g[b] } }

\* the local recipes STEP 5 builds for a list of ingredients, each with its
\* match percentage
LocalScores(ingredients) ==
    LET found == LocalTierRecipes(findLocalRecipes(ingredients), ingredients)
    IN  { <<found[i].id, found[i].matchPercentage>> : i \in 1..Len(found) }

\* C22: the exact-match lookup is by the sorted list of ingredients, so lists
\* that are permutations of each other get the same local recipes with the
\* same match scores.
C22_PermutationsAgree ==
    (pc = "idle" /\ Len(fnOut) = 1 /\ ~fnOut[1].threw) =>
        \A other \in Reorderings(fnIn.ingredients) :
            LocalScores(other) = LocalScores(fnIn.ingredients)


\* the providers in the order of the chain, and whether each is configured
ChainTiers == <<"spoonacular", "gemini", "cohere", "openrouter">>
ChainConfigured == <<cfg.spoonacular, cfg.gemini, cfg.cohere, cfg.openRouter>>

\* the provider's adapter was called and came back
CameBack(k) == \E i \in 1..Len(results) : results[i].tier = ChainTiers[k]

\* it came back with recipes
Succeeded(k) ==
    \E i \in 1..Len(results) :
        results[i].tier = ChainTiers[k] /\ results[i].result \in {"recipes", "recipe"}

\* the position of the first provider that came back with recipes, 5 if none did
WinnerPos ==
    IF \E k \in 1..4 : Succeeded(k) THEN CHOOSE k \in 1..4 : Succeeded(k) /\ \A j \in 1..(k - 1) : ~Succeeded(j)
    ELSE 5

\* the response to the request of a handler whose providers gave recipes found
\* under origin tag src at fallback level level, whatever happened before
ResponseGiven(found, src, level) ==
    Complete([Arrived(query) EXCEPT !.ingredientsArray = ingredientsArray,
                                    !.normalizedIngredients = normalizedIngredients,
                                    !.recipes = found,
                                    !.source = src,
                                    !.fallbackLevel = level]).response

\* C23: a provider that is not configured and a provider whose calls all fail
\* (or, for the structured provider, that returns an empty array) are the same
\* to the request: in both cases the chain goes on to the next provider, and
\* the response is that of the first provider that gives recipes, or of the
\* local steps, with nothing in it of the providers before.
C23_UnconfiguredIsFailed ==
    (pc = "done" /\ response.status = 200) =>
        /\ \A k \in 1..4 : CameBack(k) <=> (ChainConfigured[k] /\ k <= WinnerPos)
        /\ response =
             CASE WinnerPos = 1 -> ResponseGiven(recipes, "spoonacular", LevelSpoonacular)
               [] WinnerPos = 2 -> ResponseGiven(<<Recipe(3000, 95, "gemini_ai")>>,
                                                 "gemini_ai", LevelGemini)
               [] WinnerPos = 3 -> ResponseGiven(<<Recipe(3001, 90, "cohere_ai")>>,
                                                 "cohere_ai", LevelCohere)
               [] WinnerPos = 4 -> ResponseGiven(<<Recipe(3002, 85, "openrouter_mistral")>>,
                                                 "openrouter_mistral", LevelOpenRouter)
               [] OTHER         -> ResponseGiven(<<>>, "unknown", 0)

\* the structured provider returned an empty array, Gemini is not configured,
\* every model of Cohere failed, OpenRouter is not configured: the response is
\* the local one
C23_Witness ==
    /\ pc = "done"
    /\ response.status = 200
    /\ results = <<[tier |-> "spoonacular", result |-> "empty"],
                   [tier |-> "cohere", result |-> "null"]>>
    /\ ~cfg.gemini
    /\ ~cfg.openRouter
    /\ response.source = "local"
    /\ response.fallbackLevel = LevelLocal


\* modelsToTry of the adapter of a tier
ModelsOf(tier) ==
    CASE tier = "gemini" -> GeminiModels
      [] tier = "cohere" -> CohereModels
      [] OTHER           -> OpenRouterModels

\* the identifiers are called in list order from the first, each at most once:
\* the index of the identifier being called only starts at 1, moves on by one
\* while the adapter is still running, or is cleared when the adapter returns
CalledInListOrder ==
    modelIdx' # modelIdx =>
        \/ modelIdx = 0 /\ modelIdx' = 1 /\ pc' \in AwaitingCall
        \/ modelIdx > 0 /\ modelIdx' = modelIdx + 1 /\ pc' = pc
        \/ modelIdx > 0 /\ modelIdx' = 0 /\ pc' \notin AwaitingCall

\* an adapter that has been called returns null only after its last
\* identifier
NullAfterLastModel ==
    (Len(results') = Len(results) + 1 /\ results'[Len(results')].result = "null") =>
        modelIdx = Len(ModelsOf(results'[Len(results')].tier))

\* C24: a generative adapter calls its model identifiers in list order, each
\* at most once, going on to the next only after a failed call and stopping at
\* the first that responds; it returns 'unavailable' only when every
\* identifier failed.
C24_ModelsInOrder == [][CalledInListOrder /\ NullAfterLastModel]_vars


\* C25: when the local tier is reached and the table has no match, the list
\* the number limit is applied to holds one synthesized recipe per normalized
\* ingredient, with ids 2000, 2001, ... in the order of the ingredients.
C25_OnePerIngredient ==
    (pc = "done" /\ response.status = 200 /\ "local" \in SeqToSet(calls)
         /\ Len(findLocalRecipes(normalizedIngredients)) = 0) =>
        /\ Len(recipes) = Len(normalizedIngredients)
        /\ \A i \in 1..Len(recipes) : recipes[i].id = 2000 + (i - 1)


\* C26: the recipes of a successful search response are in non-increasing
\* order of match percentage, and they are the first of the sorted list: no
\* recipe cut off by the number limit has a higher match percentage than one
\* that is kept.
C26_SortedBeforeLimit ==
    (pc = "done" /\ response.status = 200) =>
        /\ \A i, j \in 1..Len(response.recipes) :
              i < j => response.recipes[i].matchPercentage
                           >= response.recipes[j].matchPercentage
        /\ Len(response.recipes) <= Len(recipes)
        /\ response.recipes = SubSeq(recipes, 1, Len(response.recipes))
        /\ \A i \in 1..Len(response.recipes) :
              \A j \in (Len(response.recipes) + 1)..Len(recipes) :
                  recipes[j].matchPercentage <= response.recipes[i].matchPercentage

\* local recipes of different match percentages, the list cut to 2 by number
C26_Witness ==
    /\ pc = "done"
    /\ response.status = 200
    /\ response.source = "local"
    /\ query.number = Num(2)
    /\ Len(response.recipes) = 2
    /\ Len(recipes) > 2
    /\ response.recipes[1].id = 1002        \* a partial match, found after 1001
    /\ response.recipes[1].matchPercentage > response.recipes[2].matchPercentage
    /\ \E j \in 3..Len(recipes) : recipes[j].id \notin {1001, 1002}


\* C27: in a successful search response the source and the fallback level
\* are one of six pairs (no failure level 1, 3, 5 or 7 is sent), and
\* usingFallback is false exactly when the source is spoonacular.
C27_SourceLevelPairs ==
    (pc = "done" /\ response.status = 200) =>
        /\ <<response.source, response.fallbackLevel>> \in
               { <<"spoonacular", 0>>, <<"gemini_ai", 2>>, <<"cohere_ai", 4>>,
                 <<"openrouter_mistral", 6>>, <<"local", 8>>, <<"emergency", 9>> }
        /\ ~response.usingFallback <=> response.source = "spoonacular"

\* every provider configured and failing, the local steps answer at level 8
C27_Witness ==
    /\ pc = "done"
    /\ response.status = 200
    /\ Len(results) = 4
    /\ \A i \in 1..4 : results[i].result \in {"error", "null"}
    /\ response.source = "local"
    /\ response.fallbackLevel = 8
    /\ response.usingFallback


\* a provider is called at most once, and its adapter is at one of its models
CallsBounded ==
    /\ \A i, j \in 1..Len(calls) : i # j => calls[i] # calls[j]
    /\ pc = "await_gemini" => modelIdx \in 1..Len(GeminiModels)
    /\ pc = "await_cohere" => modelIdx \in 1..Len(CohereModels)
    /\ pc = "await_openrouter" => modelIdx \in 1..Len(OpenRouterModels)
    /\ <<Len(GeminiModels), Len(CohereModels), Len(OpenRouterModels)>> = <<4, 4, 1>>

\* a response that has been sent is not followed by another
SentOnce == response # NoResponse => response' = response

\* C28: every search request ends with one response, sent once, after at most
\* one structured call and one call for each model of the adapters (4, 4, 1),
\* given that every call settles.
C28_OneResponse ==
    /\ <>(pc = "done" /\ response # NoResponse)
    /\ [][SentOnce]_vars
    /\ []CallsBounded

\* every provider called and failing, then the lookup in the table throwing:
\* the response is the 500 of the handler's catch
C28_Witness ==
    /\ pc = "done"
    /\ calls = <<"spoonacular", "gemini", "cohere", "openrouter", "local">>
    /\ response = ServerError

\* the ingredients a user may add to the list
AddedPool == UserPool \cup RecipePool

\* C29: for a fixed recipe ingredient list, the score of a user ingredient
\* list with one more ingredient, put before or after the others, is never
\* below the score of the list.
C29_MonotoneInUser ==
    (pc = "idle" /\ Len(fnOut) = 1) =>
        \A added \in AddedPool :
            /\ calculateMatchPercentage(Append(fnIn.user, added), fnIn.recipe) >= fnOut[1]
            /\ calculateMatchPercentage(<<added>> \o fnIn.user, fnIn.recipe) >= fnOut[1]

\* one partial match of three scores 24; "rice" added, an exact match too, 64;
\* "chicken breast" added, the partial match becomes an exact one, 40
C29_Witness ==
    /\ pc = "idle"
    /\ fnIn.user = <<"chicken">>
    /\ fnIn.recipe = <<"chicken breast", "Chopped Rice", "salt">>
    /\ fnOut = <<24>>
    /\ calculateMatchPercentage(<<"chicken", "rice">>, fnIn.recipe) = 64
    /\ calculateMatchPercentage(<<"chicken", "chicken breast">>, fnIn.recipe) = 40

\* no two entries of the favourites have the same id
OneEntryPerId ==
    \A i, j \in 1..Len(storage) : i # j => storage[i].id # storage[j].id

\* a toggle on a recipe that the list holds takes its entries out of the list
StoredToggleRemoves ==
    (storage' # storage /\ StoredAsFavorite(modal.recipe.id)) =>
        /\ Len(storage') < Len(storage)
        /\ \A i \in 1..Len(storage') : storage'[i].id # modal.recipe.id

\* C30: whatever modals are opened, with recipeId changing and the detail
\* call succeeding or failing, and whatever toggles are clicked, the
\* favourites hold at most one entry per recipe id, and a toggle on a recipe
\* stored as favourite removes it.
C30_FavoritesUnique ==
    /\ []OneEntryPerId
    /\ [][StoredToggleRemoves]_vars

====
